---- MODULE Spec2Model ----
(***************************************************************************)
(* Narrative segmentation and block-wise script assembly of main.py.       *)
(*                                                                         *)
(* Text is held run-length encoded: a text is a sequence of runs           *)
(* [c |-> class, n |-> count], n >= 1, adjacent runs of different class.   *)
(* Classes: "a" a letter, "sp" a space, "nl" a newline, "dot" one of .!?,  *)
(* "col" a colon, "P" the literal "# PARTE", "M" the literal "# META",     *)
(* "R" the literal "# REGRAS", "Mas"/"But" a transition word of the        *)
(* Portuguese/English list.  A run of a literal class holds exactly one    *)
(* literal when its count equals the literal's length; a shorter run is a  *)
(* cut literal and matches nothing.  len(), slicing, strip(), re.split and *)
(* the manual-structure regex are computed on runs exactly as Python       *)
(* computes them on the characters the runs stand for.                     *)
(***************************************************************************)
EXTENDS Integers, Sequences, FiniteSets, TLC

\* ------------------------------------------------------------------ text

Run(c, n) == [c |-> c, n |-> n]

Txt(c, n) == IF n <= 0 THEN <<>> ELSE <<Run(c, n)>>

Whitespace == {"sp", "nl"}

Max2(a, b) == IF a >= b THEN a ELSE b

\* s + t
Cat(s, t) ==
    IF s = <<>> THEN t
    ELSE IF t = <<>> THEN s
    ELSE IF s[Len(s)].c = t[1].c
         THEN SubSeq(s, 1, Len(s) - 1) \o <<Run(t[1].c, s[Len(s)].n + t[1].n)>> \o Tail(t)
         ELSE s \o t

RECURSIVE TLen(_)
\* len(t)
TLen(t) == IF t = <<>> THEN 0 ELSE t[1].n + TLen(Tail(t))

RECURSIVE Take(_, _)
\* t[:k]
Take(t, k) ==
    IF t = <<>> \/ k <= 0 THEN <<>>
    ELSE IF t[1].n <= k THEN <<t[1]>> \o Take(Tail(t), k - t[1].n)
    ELSE <<Run(t[1].c, k)>>

RECURSIVE Drop(_, _)
\* t[k:]
Drop(t, k) ==
    IF t = <<>> THEN <<>>
    ELSE IF k <= 0 THEN t
    ELSE IF t[1].n <= k THEN Drop(Tail(t), k - t[1].n)
    ELSE <<Run(t[1].c, t[1].n - k)>> \o Tail(t)

\* t[lo:hi]
Slice(t, lo, hi) == Drop(Take(t, hi), lo)

\* t[-k:], k > 0
LastChars(t, k) == Drop(t, Max2(0, TLen(t) - k))

RECURSIVE LStrip(_)
LStrip(t) ==
    IF t = <<>> THEN <<>>
    ELSE IF t[1].c \in Whitespace THEN LStrip(Tail(t))
    ELSE t

RECURSIVE RStrip(_)
RStrip(t) ==
    IF t = <<>> THEN <<>>
    ELSE IF t[Len(t)].c \in Whitespace THEN RStrip(SubSeq(t, 1, Len(t) - 1))
    ELSE t

\* t.strip()
Strip(t) == RStrip(LStrip(t))

RECURSIVE CatAll(_)
\* ''.join(ts)
CatAll(ts) == IF ts = <<>> THEN <<>> ELSE Cat(ts[1], CatAll(Tail(ts)))

RECURSIVE JoinWith(_, _)
\* sep.join(ts)
JoinWith(sep, ts) ==
    IF ts = <<>> THEN <<>>
    ELSE IF Len(ts) = 1 THEN ts[1]
    ELSE Cat(ts[1], Cat(sep, JoinWith(sep, Tail(ts))))

NLNL == <<Run("nl", 2)>>

\* s occurs in t as a contiguous substring
Contains(t, s) ==
    \E k \in 0..(TLen(t) - TLen(s)) : Slice(t, k, k + TLen(s)) = s

\* ---------------------------------------------------------- segmentation

\* length in characters of the literals the literal classes stand for
LitLen == [P |-> 7, M |-> 6, R |-> 8, Mas |-> 3, But |-> 3]

\* the run j of t is one whole literal of class cls
IsLit(t, j, cls) == t[j].c = cls /\ t[j].n = LitLen[cls]

\* classes whose last / first character is a word character (\w)
WordEnd == {"a", "P", "M", "R", "Mas", "But"}

WordStart == {"a", "Mas", "But"}

\* meta / regras of an automatic block
None == <<Run("None", 0)>>

TEXTO_CURTO == 1000

MIN_CHARS_BLOCO == 1200

TARGET_CHARS_BLOCO == 1600

MAX_CHARS_BLOCO == 2000

TARGET_CHARS == 1600

JANELA_TRANSICAO == 100

\* PALAVRAS_TRANSICAO.get(idioma.lower(), PALAVRAS_TRANSICAO["português"])
PALAVRAS_TRANSICAO(idioma) ==
    IF idioma = "ingles" THEN {"But"} ELSE {"Mas"}

Bloco(num, conteudo, inicio, fim, tipo, meta, regras) ==
    [numero_bloco |-> num, conteudo |-> conteudo, inicio_char |-> inicio,
     fim_char |-> fim, tipo_demarcacao |-> tipo, meta |-> meta, regras |-> regras]

\* smallest element of a set of run indices, 0 when there is none
FirstOf(S) == IF S = {} THEN 0 ELSE CHOOSE j \in S : \A k \in S : j <= k

\* character offset at which run j of t starts
Pos(t, j) == TLen(SubSeq(t, 1, j - 1))

RECURSIVE SplitPar(_, _, _)
\* re.split(r'\n\n+', texto)
SplitPar(t, cur, acc) ==
    IF t = <<>> THEN Append(acc, cur)
    ELSE IF t[1].c = "nl" /\ t[1].n >= 2
         THEN SplitPar(Tail(t), <<>>, Append(acc, cur))
         ELSE SplitPar(Tail(t), Append(cur, t[1]), acc)

\* [p.strip() for p in re.split(r'\n\n+', texto) if p.strip()]
Paragrafos(texto) ==
    LET pieces == SplitPar(texto, <<>>, <<>>)
        stripped == [k \in 1..Len(pieces) |-> Strip(pieces[k])]
    IN SelectSeq(stripped, LAMBDA p : p # <<>>)

\* any(re.search(pattern, paragrafo[:100]) for pattern in palavras_transicao)
tem_transicao(paragrafo, palavras_transicao) ==
    LET p == Take(paragrafo, JANELA_TRANSICAO)
    IN \E j \in 1..Len(p) :
          /\ p[j].c \in palavras_transicao
          /\ p[j].n = LitLen[p[j].c]
          /\ (j > 1 => p[j - 1].c \notin WordEnd)
          /\ (j < Len(p) => p[j + 1].c \notin WordStart)

\* deve_quebrar without the 1200-character floor
deve_quebrar_sem_minimo(chars_bloco_atual_, nova_contagem, transicao, ultimo) ==
    \/ (nova_contagem >= TARGET_CHARS_BLOCO \/ transicao \/ ultimo)
    \/ nova_contagem >= MAX_CHARS_BLOCO

\* deve_quebrar with > in place of >=
deve_quebrar_estrito(chars_bloco_atual_, nova_contagem, transicao, ultimo) ==
    \/ /\ chars_bloco_atual_ > MIN_CHARS_BLOCO
       /\ (nova_contagem > TARGET_CHARS_BLOCO \/ transicao \/ ultimo)
    \/ nova_contagem > MAX_CHARS_BLOCO

deve_quebrar(chars_bloco_atual_, nova_contagem, transicao, ultimo) ==
    \/ /\ chars_bloco_atual_ >= MIN_CHARS_BLOCO
       /\ (nova_contagem >= TARGET_CHARS_BLOCO \/ transicao \/ ultimo)
    \/ nova_contagem >= MAX_CHARS_BLOCO

\* ParStep whose new block starts empty: the paragraph that triggers a break
\* is left out
ParStepPerde(st, paragrafo, ultimo, palavras_transicao) ==
    LET len_paragrafo == TLen(paragrafo)
        nova_contagem == st.chars + len_paragrafo
        transicao == tem_transicao(paragrafo, palavras_transicao)
    IN IF deve_quebrar(st.chars, nova_contagem, transicao, ultimo) /\ st.bloco_atual # <<>>
       THEN LET conteudo_bloco == JoinWith(NLNL, st.bloco_atual)
                fim_bloco_char == st.inicio + TLen(conteudo_bloco)
            IN [blocos |-> Append(st.blocos,
                              Bloco(Len(st.blocos) + 1, conteudo_bloco, st.inicio,
                                    fim_bloco_char, "auto", None, None)),
                bloco_atual |-> <<>>,
                chars |-> 0,
                inicio |-> fim_bloco_char + 2]
       ELSE [st EXCEPT !.bloco_atual = Append(@, paragrafo),
                       !.chars = @ + len_paragrafo]

\* one iteration of the paragraph loop on the loop state
\* st = [blocos, bloco_atual, chars, inicio]
ParStep(st, paragrafo, ultimo, palavras_transicao) ==
    LET len_paragrafo == TLen(paragrafo)
        nova_contagem == st.chars + len_paragrafo
        transicao == tem_transicao(paragrafo, palavras_transicao)
    IN IF deve_quebrar(st.chars, nova_contagem, transicao, ultimo) /\ st.bloco_atual # <<>>
       THEN LET conteudo_bloco == JoinWith(NLNL, st.bloco_atual)
                fim_bloco_char == st.inicio + TLen(conteudo_bloco)
            IN [blocos |-> Append(st.blocos,
                              Bloco(Len(st.blocos) + 1, conteudo_bloco, st.inicio,
                                    fim_bloco_char, "auto", None, None)),
                bloco_atual |-> <<paragrafo>>,
                chars |-> len_paragrafo,
                inicio |-> fim_bloco_char + 2]
       ELSE [st EXCEPT !.bloco_atual = Append(@, paragrafo),
                       !.chars = @ + len_paragrafo]

\* the last block of the paragraph loop
ParFlush(st) ==
    IF st.bloco_atual # <<>>
    THEN LET conteudo_bloco == JoinWith(NLNL, st.bloco_atual)
         IN Append(st.blocos,
                   Bloco(Len(st.blocos) + 1, conteudo_bloco, st.inicio,
                         st.inicio + TLen(conteudo_bloco), "auto", None, None))
    ELSE st.blocos

RECURSIVE SplitSent(_, _, _, _)
\* re.split(r'([.!?]+\s+)', texto) with each piece joined to its delimiter;
\* inDelim: cur ends in a delimiter that is still being read
SplitSent(t, cur, inDelim, acc) ==
    IF t = <<>> THEN (IF inDelim THEN Append(acc, cur) ELSE acc)
    ELSE IF inDelim /\ t[1].c \in Whitespace
         THEN SplitSent(Tail(t), Append(cur, t[1]), TRUE, acc)
    ELSE IF t[1].c = "dot" /\ Len(t) >= 2 /\ t[2].c \in Whitespace
         THEN SplitSent(Tail(Tail(t)),
                        Append(Append(IF inDelim THEN <<>> ELSE cur, t[1]), t[2]), TRUE,
                        IF inDelim THEN Append(acc, cur) ELSE acc)
    ELSE SplitSent(Tail(t), Append(IF inDelim THEN <<>> ELSE cur, t[1]), FALSE,
                   IF inDelim THEN Append(acc, cur) ELSE acc)

\* [''.join(sentencas[i:i+2]) for i in range(0, len(sentencas)-1, 2)]
Sentencas(texto) == SplitSent(texto, <<>>, FALSE, <<>>)

\* SentStep without 'offset += len(conteudo)'
SentStepSemOffset(st, sentenca) ==
    LET len_sentenca == TLen(sentenca)
    IN IF st.chars + len_sentenca >= TARGET_CHARS /\ st.bloco_atual # <<>>
       THEN LET conteudo == CatAll(st.bloco_atual)
            IN [blocos |-> Append(st.blocos,
                              Bloco(Len(st.blocos) + 1, conteudo, st.offset,
                                    st.offset + TLen(conteudo), "auto", None, None)),
                bloco_atual |-> <<sentenca>>,
                chars |-> len_sentenca,
                offset |-> st.offset]
       ELSE [st EXCEPT !.bloco_atual = Append(@, sentenca),
                       !.chars = @ + len_sentenca]

\* one iteration of the sentence loop on st = [blocos, bloco_atual, chars, offset]
SentStep(st, sentenca) ==
    LET len_sentenca == TLen(sentenca)
    IN IF st.chars + len_sentenca >= TARGET_CHARS /\ st.bloco_atual # <<>>
       THEN LET conteudo == CatAll(st.bloco_atual)
            IN [blocos |-> Append(st.blocos,
                              Bloco(Len(st.blocos) + 1, conteudo, st.offset,
                                    st.offset + TLen(conteudo), "auto", None, None)),
                bloco_atual |-> <<sentenca>>,
                chars |-> len_sentenca,
                offset |-> st.offset + TLen(conteudo)]
       ELSE [st EXCEPT !.bloco_atual = Append(@, sentenca),
                       !.chars = @ + len_sentenca]

SentFlush(st) ==
    IF st.bloco_atual # <<>>
    THEN LET conteudo == CatAll(st.bloco_atual)
         IN Append(st.blocos,
                   Bloco(Len(st.blocos) + 1, conteudo, st.offset,
                         st.offset + TLen(conteudo), "auto", None, None))
    ELSE st.blocos

RECURSIVE SentFold(_, _)
SentFold(st, sentencas_) ==
    IF sentencas_ = <<>> THEN SentFlush(st)
    ELSE SentFold(SentStep(st, sentencas_[1]), Tail(sentencas_))

_segmentar_por_sentencas(texto) ==
    SentFold([blocos |-> <<>>, bloco_atual |-> <<>>, chars |-> 0, offset |-> 0],
             Sentencas(texto))

RECURSIVE ParFold(_, _, _)
ParFold(st, ps, palavras_transicao) ==
    IF ps = <<>> THEN ParFlush(st)
    ELSE ParFold(ParStep(st, ps[1], Len(ps) = 1, palavras_transicao), Tail(ps),
                 palavras_transicao)

_segmentar_automaticamente(texto, palavras_transicao) ==
    LET ps == Paragrafos(texto)
    IN IF Len(ps) = 1 THEN _segmentar_por_sentencas(texto)
       ELSE ParFold([blocos |-> <<>>, bloco_atual |-> <<>>, chars |-> 0, inicio |-> 0],
                    ps, palavras_transicao)

NoMatch == [found |-> FALSE]

\* REGEX_ESTRUTURA_MANUAL.search(texto, pos):
\*   # PARTE.*?:(.*?)\n# META.*?:(.*?)\n# REGRAS.*?:(.*?)(?=\n# PARTE|\Z)   (DOTALL)
\* every lazy group ends at the first place the next literal occurs
RegexSearch(t, pos) ==
    LET n  == Len(t)
        p  == FirstOf({j \in 1..n : IsLit(t, j, "P") /\ Pos(t, j) >= pos})
        c1 == IF p = 0 THEN 0 ELSE FirstOf({j \in (p + 1)..n : t[j].c = "col"})
        m  == IF c1 = 0 THEN 0
              ELSE FirstOf({j \in (c1 + 2)..n : IsLit(t, j, "M") /\ t[j - 1].c = "nl"})
        c2 == IF m = 0 THEN 0 ELSE FirstOf({j \in (m + 1)..n : t[j].c = "col"})
        r  == IF c2 = 0 THEN 0
              ELSE FirstOf({j \in (c2 + 2)..n : IsLit(t, j, "R") /\ t[j - 1].c = "nl"})
        c3 == IF r = 0 THEN 0 ELSE FirstOf({j \in (r + 1)..n : t[j].c = "col"})
        q  == IF c3 = 0 THEN 0
              ELSE FirstOf({j \in (c3 + 2)..n : IsLit(t, j, "P") /\ t[j - 1].c = "nl"})
    IN IF c3 = 0 THEN NoMatch
       ELSE LET fim == IF q = 0 THEN TLen(t) ELSE Pos(t, q) - 1
            IN [found |-> TRUE,
                start |-> Pos(t, p),
                end   |-> fim,
                g1    |-> Slice(t, Pos(t, c1) + 1, Pos(t, m) - 1),
                g2    |-> Slice(t, Pos(t, c2) + 1, Pos(t, r) - 1),
                g3    |-> Slice(t, Pos(t, c3) + 1, fim)]

RECURSIVE RegexFindAll(_, _)
\* REGEX_ESTRUTURA_MANUAL.findall(texto), scanning from pos
RegexFindAll(t, pos) ==
    LET mt == RegexSearch(t, pos)
    IN IF mt.found THEN <<mt>> \o RegexFindAll(t, mt.end) ELSE <<>>

RECURSIVE ManualLoopMisto(_, _, _, _)
\* ManualLoop that treats only the first triplet as manual
ManualLoopMisto(t, blocos_manuais, k, st) ==
    IF k > Len(blocos_manuais) THEN st.resultado
    ELSE LET match == RegexSearch(t, st.offset_atual)
             inicio == IF match.found THEN match.start ELSE st.offset_atual
             fim == IF match.found THEN match.end
                    ELSE IF k = Len(blocos_manuais) THEN TLen(t)
                    ELSE st.offset_atual + 1000
             bloco == IF k = 1
                      THEN Bloco(k, Slice(t, inicio, fim), inicio, fim, "manual",
                                 Strip(blocos_manuais[k].g2), Strip(blocos_manuais[k].g3))
                      ELSE Bloco(k, Slice(t, inicio, fim), inicio, fim, "auto", None, None)
         IN ManualLoopMisto(t, blocos_manuais, k + 1,
                            [resultado |-> Append(st.resultado, bloco),
                             offset_atual |-> IF match.found THEN fim ELSE st.offset_atual])

RECURSIVE ManualLoop(_, _, _, _)
\* the loop over blocos_manuais: k is enumerate's i, st = [resultado, offset_atual]
ManualLoop(t, blocos_manuais, k, st) ==
    IF k > Len(blocos_manuais) THEN st.resultado
    ELSE LET match == RegexSearch(t, st.offset_atual)
             inicio == IF match.found THEN match.start ELSE st.offset_atual
             fim == IF match.found THEN match.end
                    ELSE IF k = Len(blocos_manuais) THEN TLen(t)
                    ELSE st.offset_atual + 1000
             bloco == Bloco(k, Slice(t, inicio, fim), inicio, fim, "manual",
                            Strip(blocos_manuais[k].g2), Strip(blocos_manuais[k].g3))
         IN ManualLoop(t, blocos_manuais, k + 1,
                       [resultado |-> Append(st.resultado, bloco),
                        offset_atual |-> IF match.found THEN fim ELSE st.offset_atual])

\* BlocoUnico with the content trimmed
BlocoUnicoAparado(texto_) ==
    <<Bloco(1, Strip(texto_), 0, TLen(texto_), "auto", None, None)>>

BlocoUnico(texto_) == <<Bloco(1, texto_, 0, TLen(texto_), "auto", None, None)>>

segmentar_narrativa_em_blocos(texto, idioma) ==
    IF TLen(texto) < TEXTO_CURTO THEN BlocoUnico(texto)
    ELSE LET blocos_manuais == RegexFindAll(texto, 0)
         IN IF blocos_manuais # <<>>
            THEN ManualLoop(texto, blocos_manuais, 1, [resultado |-> <<>>, offset_atual |-> 0])
            ELSE _segmentar_automaticamente(texto, PALAVRAS_TRANSICAO(idioma))

\* ------------------------------------------------- inputs of segmentation

MaxPars == 3

MaxSents == 3

MaxPartes == 2

W(n) == Txt("a", n)

RECURSIVE SeqsOf(_, _)
\* the sequences of exactly k elements of S
SeqsOf(S, k) ==
    IF k = 0 THEN {<<>>}
    ELSE {Append(q, x) : q \in SeqsOf(S, k - 1), x \in S}

SeqsBetween(S, lo, hi) == UNION {SeqsOf(S, k) : k \in lo..hi}

ParLens == {300, 400, 700, 1200, 1299, 1700, 2100}

\* a paragraph: letters only, or a transition word, a space and letters
ParShapes ==
    {W(n) : n \in ParLens}
    \cup {CatAll(<<Txt(w, 3), Txt("sp", 1), W(296)>>) : w \in {"Mas", "But"}}

ParTexts == {JoinWith(NLNL, ps) : ps \in SeqsBetween(ParShapes, 2, MaxPars)}

SentLens == {500, 1000, 1700}

Sentence(n) == CatAll(<<W(n), Txt("dot", 1), Txt("sp", 1)>>)

\* sentences without a paragraph break, with and without a tail that no
\* whitespace follows (unpunctuated, or ending in the text's last period)
SentTexts ==
    {Cat(CatAll(ss), tail) :
        ss \in SeqsBetween({Sentence(n) : n \in SentLens}, 0, MaxSents),
        tail \in {<<>>, W(200), W(1000), Cat(W(200), Txt("dot", 1))}}

\* one PARTE/META/REGRAS triplet whose rules are n letters long
Parte(n) ==
    CatAll(<<Txt("P", 7), Txt("sp", 1), W(1), Txt("col", 1), Txt("sp", 1), W(8),
             Txt("nl", 1), Txt("M", 6), Txt("col", 1), Txt("sp", 1), W(12),
             Txt("nl", 1), Txt("R", 8), Txt("col", 1), Txt("sp", 1), W(n)>>)

\* a PARTE header that no META line follows
ParteSemMeta(n) ==
    CatAll(<<Txt("P", 7), Txt("sp", 1), W(1), Txt("col", 1), Txt("sp", 1), W(n)>>)

ParteShapes == {Parte(20), Parte(1100), ParteSemMeta(1100)}

ManualTexts ==
    {Cat(pre, JoinWith(sep, ps)) :
        pre \in {<<>>, Cat(W(40), Txt("nl", 1))},
        sep \in {Txt("nl", 1), NLNL},
        ps \in SeqsBetween(ParteShapes, 1, MaxPartes)}

OddTexts ==
    {<<>>, Txt("sp", 5), Txt("sp", 1000), Txt("nl", 1200), W(5), W(999), W(1000),
     CatAll(<<Txt("nl", 2), W(1300), Txt("nl", 3), W(400), Txt("sp", 2), Txt("nl", 2)>>),
     CatAll(<<Txt("sp", 1), W(600), Txt("nl", 1), W(600), Txt("dot", 1), Txt("nl", 2)>>)}

SegInputs == ParTexts \cup SentTexts \cup ManualTexts \cup OddTexts

Idiomas == {"portugues", "ingles", "klingon"}

\* ------------------------------------------------------------------ state

VARIABLES
    texto, idioma,          \* arguments of segmentar_narrativa_em_blocos
    seg_pc,                 \* position in the segmentation
    estrategia,             \* the strategy the dispatcher took
    paragrafos, sentencas,  \* the split input
    idx,                    \* index of the next paragraph / sentence
    blocos,                 \* result list
    bloco_atual,            \* pieces of the open block
    chars_bloco_atual,      \* running count of the paragraph loop
    inicio_bloco_char,      \* start offset of the open block
    chars_atual,            \* running count of the sentence loop
    offset,                 \* start offset of the open block, sentence loop
    pc,                     \* position of run_generation_task
    status, resultado,      \* db_job.status, db_job.resultado
    roteiro_master,         \* db_job.roteiro_master
    num_variacoes,          \* request.num_variacoes
    idiomas_alvo,           \* agente.idiomas_alvo
    premissa_detalhada,
    bi,                     \* index in blocos of the block being generated
    tentativa,              \* i of _chamar_api_com_tentativas
    roteiro_acumulado,
    prompt_bloco,           \* the prompt of the call in flight
    em_voo,                 \* numbers of the blocks with a generation call in flight
    resultados,             \* the block results consumed so far, in order
    falha_bloco,            \* number of the block whose call ran out of attempts
    n_variacoes,            \* len(variacoes_masters)
    var_i, lang_i,          \* loop positions over variations and languages
    roteiros,               \* languages holding a script (roteiros_adaptados / roteiros_var)
    audios,                 \* languages holding an audio (audios_gerados / audios_var)
    chamadas,               \* kinds of call made after the block loop
    fn_pc,                  \* position in the helper function that is running
    titulo,                 \* return value of _extrair_titulo_automatico
    max_chars, chunks,      \* argument and return value of dividir_texto_em_chunks
    idioma_master,          \* arguments of adaptar_culturalmente
    idioma_alvo,
    configurado,            \* genai.configure was called
    modelo_i,               \* position in modelos_disponiveis
    chamadas_api,           \* the generate_content_async calls issued, in order
    respostas,              \* response.text of the calls that returned, in order
    roteiro_adaptado,       \* return value of adaptar_culturalmente
    texto_completo,         \* response.text inside gerar_variacoes_roteiro
    variacoes_masters,      \* return value of gerar_variacoes_roteiro
    max_tentativas,         \* argument of _chamar_api_com_tentativas
    esperas,                \* asyncio.sleep(2) calls made by _chamar_api_com_tentativas
    retorno,                \* return value of _chamar_api_com_tentativas
    agora,                  \* datetime.utcnow(), in seconds
    cliente,                \* get_redis_client() returns a client
    max_requests,           \* RateLimiter fields
    window_seconds,
    ratelimit,              \* the sorted set under "ratelimit:{identifier}" and its expiry
    chamada,                \* position and locals of each running is_allowed call
    decisoes,               \* the is_allowed calls that returned: clock reading and result
    failure_threshold,      \* CircuitBreaker fields
    timeout_seconds,
    circuit,                \* the value under "circuit:{identifier}" and its expiry
    falhas_registradas,     \* times of the record_failure calls since the last reset
    aberto                  \* the last is_open call: its return value, the instant of
                            \* the call and the failures recorded before it

seg_vars == <<texto, idioma, seg_pc, estrategia, paragrafos, sentencas, idx, blocos,
              bloco_atual, chars_bloco_atual, inicio_bloco_char, chars_atual, offset>>

seg_locals == <<seg_pc, estrategia, paragrafos, sentencas, idx, bloco_atual,
                chars_bloco_atual, inicio_bloco_char, chars_atual, offset>>

job_vars == <<pc, status, resultado, roteiro_master, num_variacoes, idiomas_alvo,
              premissa_detalhada, bi, tentativa, roteiro_acumulado, prompt_bloco,
              em_voo, resultados, falha_bloco, n_variacoes, var_i, lang_i, roteiros,
              audios, chamadas>>

chunk_vars == <<max_chars, chunks>>

adapt_vars == <<idioma_master, idioma_alvo, configurado, modelo_i, chamadas_api,
                respostas, roteiro_adaptado>>

variacoes_vars == <<texto_completo, variacoes_masters>>

fn_vars == <<fn_pc, titulo, chunk_vars, adapt_vars, variacoes_vars>>

tent_vars == <<max_tentativas, esperas, retorno>>

limiter_vars == <<max_requests, window_seconds, ratelimit, chamada, decisoes>>

breaker_vars == <<failure_threshold, timeout_seconds, circuit, falhas_registradas, aberto>>

util_vars == <<tent_vars, agora, cliente, limiter_vars, breaker_vars>>

vars == <<seg_vars, job_vars, fn_vars, util_vars>>

NoPrompt == [i |-> 0]

NoJob == [tipo |-> "None"]

\* the job row as create_db_job leaves it, and the locals before the task runs
JobIdle ==
    /\ pc = "inicio"
    /\ status = "pending"
    /\ resultado = NoJob
    /\ roteiro_master = None
    /\ premissa_detalhada = <<>>
    /\ bi = 1
    /\ tentativa = 0
    /\ roteiro_acumulado = <<>>
    /\ prompt_bloco = NoPrompt
    /\ em_voo = {}
    /\ resultados = <<>>
    /\ falha_bloco = 0
    /\ n_variacoes = 0
    /\ var_i = 1
    /\ lang_i = 1
    /\ roteiros = <<>>
    /\ audios = <<>>
    /\ chamadas = {}

ChunkIdle == max_chars = 0 /\ chunks = <<>>

AdaptIdle ==
    /\ idioma_master = "None"
    /\ idioma_alvo = "None"
    /\ configurado = FALSE
    /\ modelo_i = 1
    /\ chamadas_api = <<>>
    /\ respostas = <<>>
    /\ roteiro_adaptado = None

VariacoesIdle == texto_completo = None /\ variacoes_masters = <<>>

TentIdle == max_tentativas = 0 /\ esperas = 0 /\ retorno = None

\* no key in the store
SemChave == [valor |-> {}, expira |-> 0]

\* no value under the circuit key
SemCircuito == [failures |-> 0, open_until |-> 0, expira |-> 0]

\* is_open was not called yet
SemConsulta == [ret |-> FALSE, em |-> 0, falhas |-> <<>>]

LimiterIdle ==
    /\ max_requests = 0
    /\ window_seconds = 0
    /\ ratelimit = SemChave
    /\ chamada = <<>>
    /\ decisoes = <<>>

BreakerIdle ==
    /\ failure_threshold = 0
    /\ timeout_seconds = 0
    /\ circuit = SemCircuito
    /\ falhas_registradas = <<>>
    /\ aberto = SemConsulta

\* the retry helper and the cache utilities are not in use
UtilIdle ==
    /\ TentIdle
    /\ agora = 1
    /\ cliente = FALSE
    /\ LimiterIdle
    /\ BreakerIdle

\* no helper function is running
FnIdle ==
    /\ fn_pc = "idle"
    /\ titulo = None
    /\ ChunkIdle
    /\ AdaptIdle
    /\ VariacoesIdle

\* the segmentation has not started
SegIdle ==
    /\ seg_pc = "inicio"
    /\ estrategia = "nenhuma"
    /\ paragrafos = <<>>
    /\ sentencas = <<>>
    /\ idx = 1
    /\ blocos = <<>>
    /\ bloco_atual = <<>>
    /\ chars_bloco_atual = 0
    /\ inicio_bloco_char = 0
    /\ chars_atual = 0
    /\ offset = 0

\* ---------------------------------------------- segmentation, step by step

SegInit ==
    /\ texto \in SegInputs
    /\ idioma \in Idiomas
    /\ seg_pc = "inicio"
    /\ estrategia = "nenhuma"
    /\ paragrafos = <<>>
    /\ sentencas = <<>>
    /\ idx = 1
    /\ blocos = <<>>
    /\ bloco_atual = <<>>
    /\ chars_bloco_atual = 0
    /\ inicio_bloco_char = 0
    /\ chars_atual = 0
    /\ offset = 0
    /\ JobIdle
    /\ num_variacoes = 1
    /\ idiomas_alvo = <<>>
    /\ FnIdle
    /\ UtilIdle

\* EDGE CASE 1: a single block for a short text
TextoCurto ==
    /\ seg_pc = "inicio"
    /\ TLen(texto) < TEXTO_CURTO
    /\ blocos' = BlocoUnico(texto)
    /\ estrategia' = "curto"
    /\ seg_pc' = "fim"
    /\ UNCHANGED <<job_vars, fn_vars, util_vars>>
    /\ UNCHANGED <<texto, idioma, paragrafos, sentencas, idx, bloco_atual,
                   chars_bloco_atual, inicio_bloco_char, chars_atual, offset>>

\* DETECÇÃO 1: the manual structure
EstruturaManual ==
    /\ seg_pc = "inicio"
    /\ ~(TLen(texto) < TEXTO_CURTO)
    /\ LET blocos_manuais == RegexFindAll(texto, 0)
       IN /\ blocos_manuais # <<>>
          /\ blocos' = ManualLoop(texto, blocos_manuais, 1,
                                  [resultado |-> <<>>, offset_atual |-> 0])
    /\ estrategia' = "manual"
    /\ seg_pc' = "fim"
    /\ UNCHANGED <<job_vars, fn_vars, util_vars>>
    /\ UNCHANGED <<texto, idioma, paragrafos, sentencas, idx, bloco_atual,
                   chars_bloco_atual, inicio_bloco_char, chars_atual, offset>>

\* DETECÇÃO 2, PASSO 1: split into paragraphs, more or fewer than one
IniciarParagrafos ==
    /\ seg_pc = "inicio"
    /\ ~(TLen(texto) < TEXTO_CURTO)
    /\ RegexFindAll(texto, 0) = <<>>
    /\ Len(Paragrafos(texto)) # 1
    /\ paragrafos' = Paragrafos(texto)
    /\ estrategia' = "paragrafos"
    /\ seg_pc' = "paragrafos"
    /\ UNCHANGED <<job_vars, fn_vars, util_vars>>
    /\ UNCHANGED <<texto, idioma, sentencas, idx, blocos, bloco_atual,
                   chars_bloco_atual, inicio_bloco_char, chars_atual, offset>>

\* EDGE CASE: exactly one paragraph, fall back to sentences
IniciarSentencas ==
    /\ seg_pc = "inicio"
    /\ ~(TLen(texto) < TEXTO_CURTO)
    /\ RegexFindAll(texto, 0) = <<>>
    /\ Len(Paragrafos(texto)) = 1
    /\ sentencas' = Sentencas(texto)
    /\ estrategia' = "sentencas"
    /\ seg_pc' = "sentencas"
    /\ UNCHANGED <<job_vars, fn_vars, util_vars>>
    /\ UNCHANGED <<texto, idioma, paragrafos, idx, blocos, bloco_atual,
                   chars_bloco_atual, inicio_bloco_char, chars_atual, offset>>

\* PASSO 2: one paragraph of the loop
IterarParagrafo ==
    /\ seg_pc = "paragrafos"
    /\ idx <= Len(paragrafos)
    /\ LET st == ParStep([blocos |-> blocos, bloco_atual |-> bloco_atual,
                          chars |-> chars_bloco_atual, inicio |-> inicio_bloco_char],
                         paragrafos[idx], idx = Len(paragrafos),
                         PALAVRAS_TRANSICAO(idioma))
       IN /\ blocos' = st.blocos
          /\ bloco_atual' = st.bloco_atual
          /\ chars_bloco_atual' = st.chars
          /\ inicio_bloco_char' = st.inicio
    /\ idx' = idx + 1
    /\ UNCHANGED <<job_vars, fn_vars, util_vars>>
    /\ UNCHANGED <<texto, idioma, seg_pc, estrategia, paragrafos, sentencas,
                   chars_atual, offset>>

\* PASSO 3: the last block
FinalizarParagrafos ==
    /\ seg_pc = "paragrafos"
    /\ idx > Len(paragrafos)
    /\ blocos' = ParFlush([blocos |-> blocos, bloco_atual |-> bloco_atual,
                           chars |-> chars_bloco_atual, inicio |-> inicio_bloco_char])
    /\ seg_pc' = "fim"
    /\ UNCHANGED <<job_vars, fn_vars, util_vars>>
    /\ UNCHANGED <<texto, idioma, estrategia, paragrafos, sentencas, idx, bloco_atual,
                   chars_bloco_atual, inicio_bloco_char, chars_atual, offset>>

IterarSentenca ==
    /\ seg_pc = "sentencas"
    /\ idx <= Len(sentencas)
    /\ LET st == SentStep([blocos |-> blocos, bloco_atual |-> bloco_atual,
                           chars |-> chars_atual, offset |-> offset], sentencas[idx])
       IN /\ blocos' = st.blocos
          /\ bloco_atual' = st.bloco_atual
          /\ chars_atual' = st.chars
          /\ offset' = st.offset
    /\ idx' = idx + 1
    /\ UNCHANGED <<job_vars, fn_vars, util_vars>>
    /\ UNCHANGED <<texto, idioma, seg_pc, estrategia, paragrafos, sentencas,
                   chars_bloco_atual, inicio_bloco_char>>

FinalizarSentencas ==
    /\ seg_pc = "sentencas"
    /\ idx > Len(sentencas)
    /\ blocos' = SentFlush([blocos |-> blocos, bloco_atual |-> bloco_atual,
                            chars |-> chars_atual, offset |-> offset])
    /\ seg_pc' = "fim"
    /\ UNCHANGED <<job_vars, fn_vars, util_vars>>
    /\ UNCHANGED <<texto, idioma, estrategia, paragrafos, sentencas, idx, bloco_atual,
                   chars_bloco_atual, inicio_bloco_char, chars_atual, offset>>

SegNext ==
    \/ TextoCurto
    \/ EstruturaManual
    \/ IniciarParagrafos
    \/ IniciarSentencas
    \/ IterarParagrafo
    \/ FinalizarParagrafos
    \/ IterarSentenca
    \/ FinalizarSentencas

SpecSeg == SegInit /\ [][SegNext]_vars

\* the stepwise segmentation ends with the value of the function
SegAgrees ==
    seg_pc = "fim" => blocos = segmentar_narrativa_em_blocos(texto, idioma)

\* ------------------------------------------------------ run_generation_task

MAX_TENTATIVAS == 3

CONTEXTO_CHARS == 2000

GUIA_CHARS == 500

MaxVariacoes == 2

MaxIdiomas == 2

\* the literal "(Início do roteiro)"
INICIO_DO_ROTEIRO == <<Run("inicio", 19)>>

\* texts a successful generation call may return (response.text)
GenOutputs ==
    {CatAll(<<Txt("sp", 1), W(5), Txt("nl", 1)>>),
     Txt("sp", 3),
     W(1998),
     Cat(Txt("b", 1), W(1999)),
     Cat(Txt("b", 501), W(1999))}

PremissaOutputs == {W(50)}

\* agente.block_structure_prompt: templates of 0, 1, 2 and 3 blocks
JobTemplates ==
    {W(1000),
     Parte(20),
     JoinWith(Txt("nl", 1), <<Parte(1100), Parte(20)>>),
     JoinWith(NLNL, <<W(1299), W(700)>>),
     JoinWith(NLNL, <<W(700), W(1700), W(300)>>)}

ListaIdiomas == <<"ingles", "portugues", "klingon">>

Res(tipo, txt, bloco) == [tipo |-> tipo, texto |-> txt, bloco |-> bloco]

\* update_job_status: resultado is overwritten only by a truthy resultado_final
NovoResultado(atual, resultado_final) ==
    IF resultado_final.tipo = "roteiro" /\ resultado_final.texto = <<>>
    THEN atual
    ELSE resultado_final

\* contexto with a window one character short
contexto_curto(roteiro_acumulado_) ==
    IF roteiro_acumulado_ # <<>>
    THEN LastChars(roteiro_acumulado_, CONTEXTO_CHARS - 1)
    ELSE INICIO_DO_ROTEIRO

\* roteiro_acumulado[-2000:] if roteiro_acumulado else "(Início do roteiro)"
contexto(roteiro_acumulado_) ==
    IF roteiro_acumulado_ # <<>>
    THEN LastChars(roteiro_acumulado_, CONTEXTO_CHARS)
    ELSE INICIO_DO_ROTEIRO

\* prompt_bloco, by the fields that vary from block to block
MontarPrompt(bloco, total_blocos, roteiro_acumulado_) ==
    IF bloco.tipo_demarcacao = "manual"
    THEN [i |-> bloco.numero_bloco, total |-> total_blocos, tipo |-> "manual",
          contexto |-> contexto(roteiro_acumulado_),
          meta |-> bloco.meta, regras |-> bloco.regras, guia |-> None]
    ELSE [i |-> bloco.numero_bloco, total |-> total_blocos, tipo |-> bloco.tipo_demarcacao,
          contexto |-> contexto(roteiro_acumulado_),
          meta |-> None, regras |-> None, guia |-> Take(bloco.conteudo, GUIA_CHARS)]

\* acumular with the block's text trimmed before it is appended
acumular_aparado(roteiro_acumulado_, resultado_bloco) ==
    Cat(roteiro_acumulado_, Cat(Strip(resultado_bloco), NLNL))

\* roteiro_acumulado += resultado_bloco + "\n\n"
acumular(roteiro_acumulado_, resultado_bloco) ==
    Cat(roteiro_acumulado_, Cat(resultado_bloco, NLNL))

\* roteiro_final = roteiro_acumulado.strip()
roteiro_final(roteiro_acumulado_) == Strip(roteiro_acumulado_)

\* the kinds of external call made so far, with one more
MaisUma(campo) == chamadas \cup {campo}

JobInit ==
    /\ texto \in JobTemplates
    /\ idioma = "portugues"
    /\ seg_pc = "inicio"
    /\ estrategia = "nenhuma"
    /\ paragrafos = <<>>
    /\ sentencas = <<>>
    /\ idx = 1
    /\ blocos = <<>>
    /\ bloco_atual = <<>>
    /\ chars_bloco_atual = 0
    /\ inicio_bloco_char = 0
    /\ chars_atual = 0
    /\ offset = 0
    /\ JobIdle
    /\ num_variacoes \in 1..MaxVariacoes
    /\ idiomas_alvo \in {SubSeq(ListaIdiomas, 1, k) : k \in 0..MaxIdiomas}
    /\ FnIdle
    /\ UtilIdle

\* the task starts: status 'running', the premise call is issued
IniciarTarefa ==
    /\ pc = "inicio"
    /\ status' = "running"
    /\ tentativa' = 0
    /\ pc' = "premissa"
    /\ UNCHANGED <<seg_vars, fn_vars, util_vars, resultado, roteiro_master, num_variacoes, idiomas_alvo,
                   premissa_detalhada, bi, roteiro_acumulado, prompt_bloco, em_voo,
                   resultados, falha_bloco, n_variacoes, var_i, lang_i, roteiros,
                   audios, chamadas>>

\* the premise call returns a text
PremissaOk ==
    /\ pc = "premissa"
    /\ \E txt \in PremissaOutputs : premissa_detalhada' = txt
    /\ status' = "running"
    /\ pc' = "segmentar"
    /\ UNCHANGED <<seg_vars, fn_vars, util_vars, resultado, roteiro_master, num_variacoes, idiomas_alvo,
                   bi, tentativa, roteiro_acumulado, prompt_bloco, em_voo,
                   resultados, falha_bloco, n_variacoes, var_i, lang_i, roteiros,
                   audios, chamadas>>

\* an attempt of the premise call fails: retry, or the outer handler
PremissaFalha ==
    /\ pc = "premissa"
    /\ IF tentativa < MAX_TENTATIVAS - 1
       THEN /\ tentativa' = tentativa + 1
            /\ UNCHANGED <<pc, status, resultado>>
       ELSE /\ status' = "failed"
            /\ resultado' = Res("erro_fatal", <<>>, 0)
            /\ pc' = "fim"
            /\ UNCHANGED tentativa
    /\ UNCHANGED <<seg_vars, fn_vars, util_vars, roteiro_master, num_variacoes, idiomas_alvo,
                   premissa_detalhada, bi, roteiro_acumulado, prompt_bloco, em_voo,
                   resultados, falha_bloco, n_variacoes, var_i, lang_i, roteiros,
                   audios, chamadas>>

\* ESTÁGIO 2: segmentation of the block structure
Segmentar ==
    /\ pc = "segmentar"
    /\ blocos' = segmentar_narrativa_em_blocos(texto, idioma)
    /\ status' = "running"
    /\ bi' = 1
    /\ roteiro_acumulado' = <<>>
    /\ pc' = "bloco"
    /\ UNCHANGED <<texto, idioma, seg_locals, fn_vars, util_vars, resultado, roteiro_master, num_variacoes,
                   idiomas_alvo, premissa_detalhada, tentativa, prompt_bloco, em_voo,
                   resultados, falha_bloco, n_variacoes, var_i, lang_i, roteiros,
                   audios, chamadas>>

\* ESTÁGIO 3, top of the loop: build the prompt of the block, issue the call
PedirBloco ==
    /\ pc = "bloco"
    /\ bi <= Len(blocos)
    /\ prompt_bloco' = MontarPrompt(blocos[bi], Len(blocos), roteiro_acumulado)
    /\ em_voo' = em_voo \cup {blocos[bi].numero_bloco}
    /\ tentativa' = 0
    /\ status' = "running"
    /\ pc' = "aguardando_bloco"
    /\ UNCHANGED <<seg_vars, fn_vars, util_vars, resultado, roteiro_master, num_variacoes, idiomas_alvo,
                   premissa_detalhada, bi, roteiro_acumulado, resultados, falha_bloco,
                   n_variacoes, var_i, lang_i, roteiros, audios, chamadas>>

\* the call of the block returns a text
BlocoOk ==
    /\ pc = "aguardando_bloco"
    /\ \E resultado_bloco \in GenOutputs :
          /\ roteiro_acumulado' = acumular(roteiro_acumulado, resultado_bloco)
          /\ resultados' = Append(resultados,
                                  [bloco |-> prompt_bloco.i, texto |-> resultado_bloco])
    /\ em_voo' = em_voo \ {prompt_bloco.i}
    /\ prompt_bloco' = NoPrompt
    /\ bi' = bi + 1
    /\ pc' = "bloco"
    /\ UNCHANGED <<seg_vars, fn_vars, util_vars, status, resultado, roteiro_master, num_variacoes,
                   idiomas_alvo, premissa_detalhada, tentativa, falha_bloco,
                   n_variacoes, var_i, lang_i, roteiros, audios, chamadas>>

\* BlocoFalha with 'continue' in place of 'return': the failure is logged and the
\* loop goes on to the next block
BlocoFalhaContinua ==
    /\ pc = "aguardando_bloco"
    /\ IF tentativa < MAX_TENTATIVAS - 1
       THEN /\ tentativa' = tentativa + 1
            /\ UNCHANGED <<pc, status, resultado, em_voo, falha_bloco, prompt_bloco, bi>>
       ELSE /\ falha_bloco' = prompt_bloco.i
            /\ em_voo' = em_voo \ {prompt_bloco.i}
            /\ bi' = bi + 1
            /\ pc' = "bloco"
            /\ UNCHANGED <<tentativa, prompt_bloco, status, resultado>>
    /\ UNCHANGED <<seg_vars, fn_vars, util_vars, roteiro_master, num_variacoes, idiomas_alvo,
                   premissa_detalhada, roteiro_acumulado, resultados,
                   n_variacoes, var_i, lang_i, roteiros, audios, chamadas>>

\* BlocoFalha with 'break' in place of 'return': the job is marked failed but the
\* code after the loop still runs on the partial script
BlocoFalhaParcial ==
    /\ pc = "aguardando_bloco"
    /\ IF tentativa < MAX_TENTATIVAS - 1
       THEN /\ tentativa' = tentativa + 1
            /\ UNCHANGED <<pc, status, resultado, em_voo, falha_bloco, prompt_bloco, bi>>
       ELSE /\ falha_bloco' = prompt_bloco.i
            /\ em_voo' = em_voo \ {prompt_bloco.i}
            /\ status' = "failed"
            /\ resultado' = Res("erro_bloco", <<>>, prompt_bloco.i)
            /\ bi' = Len(blocos) + 1
            /\ pc' = "bloco"
            /\ UNCHANGED <<tentativa, prompt_bloco>>
    /\ UNCHANGED <<seg_vars, fn_vars, util_vars, roteiro_master, num_variacoes, idiomas_alvo,
                   premissa_detalhada, roteiro_acumulado, resultados,
                   n_variacoes, var_i, lang_i, roteiros, audios, chamadas>>

\* an attempt of the block's call fails (empty, blocked or raised):
\* retry with the same prompt, or after the last attempt fail the job and return
BlocoFalha ==
    /\ pc = "aguardando_bloco"
    /\ IF tentativa < MAX_TENTATIVAS - 1
       THEN /\ tentativa' = tentativa + 1
            /\ UNCHANGED <<pc, status, resultado, em_voo, falha_bloco, prompt_bloco, bi>>
       ELSE /\ falha_bloco' = prompt_bloco.i
            /\ em_voo' = em_voo \ {prompt_bloco.i}
            /\ status' = "failed"
            /\ resultado' = Res("erro_bloco", <<>>, prompt_bloco.i)
            /\ pc' = "fim"
            /\ UNCHANGED <<tentativa, prompt_bloco, bi>>
    /\ UNCHANGED <<seg_vars, fn_vars, util_vars, roteiro_master, num_variacoes, idiomas_alvo,
                   premissa_detalhada, roteiro_acumulado, resultados,
                   n_variacoes, var_i, lang_i, roteiros, audios, chamadas>>

\* after the loop: store the master script, pick the flow
SalvarMaster ==
    /\ pc = "bloco"
    /\ bi > Len(blocos)
    /\ roteiro_master' = roteiro_final(roteiro_acumulado)
    /\ status' = "running"
    /\ lang_i' = 1
    /\ roteiros' = <<>>
    /\ audios' = <<>>
    /\ pc' = IF num_variacoes > 1 THEN "variacoes"
             ELSE IF idiomas_alvo # <<>> THEN "adaptar"
             ELSE "concluir"
    /\ UNCHANGED <<seg_vars, fn_vars, util_vars, resultado, num_variacoes, idiomas_alvo, premissa_detalhada,
                   bi, tentativa, roteiro_acumulado, prompt_bloco, em_voo, resultados,
                   falha_bloco, n_variacoes, var_i, chamadas>>

\* no target language: the job completes with the master script
Concluir ==
    /\ pc = "concluir"
    /\ status' = "completed"
    /\ resultado' = NovoResultado(resultado, Res("roteiro", roteiro_master, 0))
    /\ pc' = "fim"
    /\ UNCHANGED <<seg_vars, fn_vars, util_vars, roteiro_master, num_variacoes, idiomas_alvo,
                   premissa_detalhada, bi, tentativa, roteiro_acumulado, prompt_bloco,
                   em_voo, resultados, falha_bloco, n_variacoes, var_i, lang_i,
                   roteiros, audios, chamadas>>

\* add a language to a dict of languages kept in insertion order
ComIdioma(ls, l) == IF \E k \in 1..Len(ls) : ls[k] = l THEN ls ELSE Append(ls, l)

\* ESTÁGIO 2.3: gerar_variacoes_roteiro returns n variations
VariacoesOk ==
    /\ pc = "variacoes"
    /\ \E n \in 1..(num_variacoes + 1) : n_variacoes' = n
    /\ chamadas' = MaisUma("variacoes")
    /\ status' = "running"
    /\ var_i' = 1
    /\ lang_i' = 1
    /\ roteiros' = <<idioma>>
    /\ audios' = <<>>
    /\ pc' = "var_adaptar"
    /\ UNCHANGED <<seg_vars, fn_vars, util_vars, resultado, roteiro_master, num_variacoes, idiomas_alvo,
                   premissa_detalhada, bi, tentativa, roteiro_acumulado, prompt_bloco,
                   em_voo, resultados, falha_bloco>>

\* gerar_variacoes_roteiro raises: the job fails
VariacoesErro ==
    /\ pc = "variacoes"
    /\ chamadas' = MaisUma("variacoes")
    /\ status' = "failed"
    /\ resultado' = Res("erro_variacoes", <<>>, 0)
    /\ pc' = "fim"
    /\ UNCHANGED <<seg_vars, fn_vars, util_vars, roteiro_master, num_variacoes, idiomas_alvo,
                   premissa_detalhada, bi, tentativa, roteiro_acumulado, prompt_bloco,
                   em_voo, resultados, falha_bloco, n_variacoes, var_i, lang_i,
                   roteiros, audios>>

\* one target language of one variation: adaptar_culturalmente returns or raises;
\* the master language is returned without a call
VarAdaptarIdioma ==
    /\ pc = "var_adaptar"
    /\ lang_i <= Len(idiomas_alvo)
    /\ LET l == idiomas_alvo[lang_i]
       IN \/ /\ l = idioma
             /\ roteiros' = ComIdioma(roteiros, l)
             /\ UNCHANGED chamadas
          \/ /\ l # idioma
             /\ chamadas' = MaisUma("adaptacao")
             /\ \E ok \in BOOLEAN :
                   roteiros' = IF ok THEN ComIdioma(roteiros, l) ELSE roteiros
    /\ status' = "running"
    /\ lang_i' = lang_i + 1
    /\ UNCHANGED <<seg_vars, fn_vars, util_vars, pc, resultado, roteiro_master, num_variacoes, idiomas_alvo,
                   premissa_detalhada, bi, tentativa, roteiro_acumulado, prompt_bloco,
                   em_voo, resultados, falha_bloco, n_variacoes, var_i, audios>>

\* the scripts of the variation are kept, its audio loop starts
VarAdaptarFim ==
    /\ pc = "var_adaptar"
    /\ lang_i > Len(idiomas_alvo)
    /\ status' = "running"
    /\ lang_i' = 1
    /\ pc' = "var_tts"
    /\ UNCHANGED <<seg_vars, fn_vars, util_vars, resultado, roteiro_master, num_variacoes, idiomas_alvo,
                   premissa_detalhada, bi, tentativa, roteiro_acumulado, prompt_bloco,
                   em_voo, resultados, falha_bloco, n_variacoes, var_i, roteiros,
                   audios, chamadas>>

\* one language of the variation's audio loop: the failure is logged, status 'running'
VarTts ==
    /\ pc = "var_tts"
    /\ lang_i <= Len(roteiros)
    /\ chamadas' = MaisUma("tts")
    /\ \E ok \in BOOLEAN :
          audios' = IF ok THEN ComIdioma(audios, roteiros[lang_i]) ELSE audios
    /\ status' = "running"
    /\ lang_i' = lang_i + 1
    /\ UNCHANGED <<seg_vars, fn_vars, util_vars, pc, resultado, roteiro_master, num_variacoes, idiomas_alvo,
                   premissa_detalhada, bi, tentativa, roteiro_acumulado, prompt_bloco,
                   em_voo, resultados, falha_bloco, n_variacoes, var_i, roteiros>>

\* next variation, or after the last one the job completes
VarProxima ==
    /\ pc = "var_tts"
    /\ lang_i > Len(roteiros)
    /\ IF var_i < n_variacoes
       THEN /\ var_i' = var_i + 1
            /\ lang_i' = 1
            /\ roteiros' = <<idioma>>
            /\ audios' = <<>>
            /\ status' = "running"
            /\ pc' = "var_adaptar"
            /\ UNCHANGED resultado
       ELSE /\ status' = "completed"
            /\ resultado' = NovoResultado(resultado, Res("roteiro", roteiro_master, 0))
            /\ pc' = "fim"
            /\ UNCHANGED <<var_i, lang_i, roteiros, audios>>
    /\ UNCHANGED <<seg_vars, fn_vars, util_vars, roteiro_master, num_variacoes, idiomas_alvo,
                   premissa_detalhada, bi, tentativa, roteiro_acumulado, prompt_bloco,
                   em_voo, resultados, falha_bloco, n_variacoes, chamadas>>

\* AdaptarFim whose failure is recorded without leaving the task: the audio
\* stage still runs
AdaptarFimSegue ==
    /\ pc = "adaptar"
    /\ lang_i > Len(idiomas_alvo)
    /\ IF roteiros # <<>> /\ TLen(roteiro_master) = 0
       THEN /\ status' = "failed"
            /\ resultado' = Res("erro_fatal", <<>>, 0)
       ELSE /\ status' = "running"
            /\ UNCHANGED resultado
    /\ lang_i' = 1
    /\ pc' = "tts"
    /\ UNCHANGED <<seg_vars, fn_vars, util_vars, roteiro_master, num_variacoes, idiomas_alvo,
                   premissa_detalhada, bi, tentativa, roteiro_acumulado, prompt_bloco,
                   em_voo, resultados, falha_bloco, n_variacoes, var_i, roteiros,
                   audios, chamadas>>

\* ESTÁGIO 2.5, one target language: with an empty master the length check of
\* adaptar_culturalmente divides by zero after its call
AdaptarIdioma ==
    /\ pc = "adaptar"
    /\ lang_i <= Len(idiomas_alvo)
    /\ LET l == idiomas_alvo[lang_i]
       IN \/ /\ l = idioma
             /\ roteiros' = ComIdioma(roteiros, l)
             /\ UNCHANGED chamadas
          \/ /\ l # idioma
             /\ chamadas' = MaisUma("adaptacao")
             /\ \E ok \in BOOLEAN :
                   roteiros' = IF ok /\ TLen(roteiro_master) > 0
                               THEN ComIdioma(roteiros, l) ELSE roteiros
    /\ status' = "running"
    /\ lang_i' = lang_i + 1
    /\ UNCHANGED <<seg_vars, fn_vars, util_vars, pc, resultado, roteiro_master, num_variacoes, idiomas_alvo,
                   premissa_detalhada, bi, tentativa, roteiro_acumulado, prompt_bloco,
                   em_voo, resultados, falha_bloco, n_variacoes, var_i, audios>>

\* the adapted scripts are stored; the size summary divides by len(roteiro_final)
AdaptarFim ==
    /\ pc = "adaptar"
    /\ lang_i > Len(idiomas_alvo)
    /\ IF roteiros # <<>> /\ TLen(roteiro_master) = 0
       THEN /\ status' = "failed"
            /\ resultado' = Res("erro_fatal", <<>>, 0)
            /\ pc' = "fim"
            /\ UNCHANGED lang_i
       ELSE /\ status' = "running"
            /\ lang_i' = 1
            /\ pc' = "tts"
            /\ UNCHANGED resultado
    /\ UNCHANGED <<seg_vars, fn_vars, util_vars, roteiro_master, num_variacoes, idiomas_alvo,
                   premissa_detalhada, bi, tentativa, roteiro_acumulado, prompt_bloco,
                   em_voo, resultados, falha_bloco, n_variacoes, var_i, roteiros,
                   audios, chamadas>>

\* Tts whose failure reaches the outer handler of the task
TtsFatal ==
    /\ pc = "tts"
    /\ lang_i <= Len(roteiros)
    /\ chamadas' = MaisUma("tts")
    /\ \E ok \in BOOLEAN :
          IF ok
          THEN /\ audios' = ComIdioma(audios, roteiros[lang_i])
               /\ status' = "running"
               /\ lang_i' = lang_i + 1
               /\ UNCHANGED <<pc, resultado>>
          ELSE /\ status' = "failed"
               /\ resultado' = Res("erro_fatal", <<>>, 0)
               /\ pc' = "fim"
               /\ UNCHANGED <<audios, lang_i>>
    /\ UNCHANGED <<seg_vars, fn_vars, util_vars, roteiro_master, num_variacoes, idiomas_alvo,
                   premissa_detalhada, bi, tentativa, roteiro_acumulado, prompt_bloco,
                   em_voo, resultados, falha_bloco, n_variacoes, var_i, roteiros>>

\* ESTÁGIO 3, one adapted language: the failure is logged, status 'running'
Tts ==
    /\ pc = "tts"
    /\ lang_i <= Len(roteiros)
    /\ chamadas' = MaisUma("tts")
    /\ \E ok \in BOOLEAN :
          audios' = IF ok THEN ComIdioma(audios, roteiros[lang_i]) ELSE audios
    /\ status' = "running"
    /\ lang_i' = lang_i + 1
    /\ UNCHANGED <<seg_vars, fn_vars, util_vars, pc, resultado, roteiro_master, num_variacoes, idiomas_alvo,
                   premissa_detalhada, bi, tentativa, roteiro_acumulado, prompt_bloco,
                   em_voo, resultados, falha_bloco, n_variacoes, var_i, roteiros>>

\* the audios are stored, the job completes
TtsFim ==
    /\ pc = "tts"
    /\ lang_i > Len(roteiros)
    /\ status' = "completed"
    /\ resultado' = NovoResultado(resultado, Res("roteiro", roteiro_master, 0))
    /\ pc' = "fim"
    /\ UNCHANGED <<seg_vars, fn_vars, util_vars, roteiro_master, num_variacoes, idiomas_alvo,
                   premissa_detalhada, bi, tentativa, roteiro_acumulado, prompt_bloco,
                   em_voo, resultados, falha_bloco, n_variacoes, var_i, lang_i,
                   roteiros, audios, chamadas>>

Next ==
    \/ IniciarTarefa
    \/ PremissaOk
    \/ PremissaFalha
    \/ Segmentar
    \/ PedirBloco
    \/ BlocoOk
    \/ BlocoFalha
    \/ SalvarMaster
    \/ Concluir
    \/ VariacoesOk
    \/ VariacoesErro
    \/ VarAdaptarIdioma
    \/ VarAdaptarFim
    \/ VarTts
    \/ VarProxima
    \/ AdaptarIdioma
    \/ AdaptarFim
    \/ Tts
    \/ TtsFim

Spec == JobInit /\ [][Next]_vars

\* every awaited call returns or raises, so the task always takes its next step
\* (the segmentation step is named by its effect on pc, which no other step has)
SpecJusta ==
    /\ Spec
    /\ WF_pc(pc = "segmentar" /\ pc' = "bloco")
    /\ WF_vars(\/ IniciarTarefa \/ PremissaOk \/ PremissaFalha
               \/ PedirBloco \/ BlocoOk \/ BlocoFalha \/ SalvarMaster \/ Concluir
               \/ VariacoesOk \/ VariacoesErro \/ VarAdaptarIdioma \/ VarAdaptarFim
               \/ VarTts \/ VarProxima \/ AdaptarIdioma \/ AdaptarFim \/ Tts \/ TtsFim)

\* ----------------------------------------------- _extrair_titulo_automatico

MAX_PALAVRAS == 15

TITULO_MAX == 120

TITULO_CORTE == 117

MaxWords == 16

Espaco == <<Run("sp", 1)>>

\* the literal "..."
Reticencias == <<Run("dot", 3)>>

RECURSIVE ColapsarEspacos(_)
\* re.sub(r'\s+', ' ', t)
ColapsarEspacos(t) ==
    IF t = <<>> THEN <<>>
    ELSE IF t[1].c \in Whitespace THEN Cat(Espaco, ColapsarEspacos(LStrip(t)))
    ELSE Cat(<<t[1]>>, ColapsarEspacos(Tail(t)))

RECURSIVE SplitWords(_, _, _)
\* t.split(): the maximal pieces of t without whitespace
SplitWords(t, cur, acc) ==
    IF t = <<>> THEN (IF cur = <<>> THEN acc ELSE Append(acc, cur))
    ELSE IF t[1].c \in Whitespace
         THEN SplitWords(Tail(t), <<>>, IF cur = <<>> THEN acc ELSE Append(acc, cur))
         ELSE SplitWords(Tail(t), Append(cur, t[1]), acc)

Palavras(t) == SplitWords(t, <<>>, <<>>)

_extrair_titulo_automatico(texto_, max_palavras) ==
    LET texto_limpo == ColapsarEspacos(Strip(texto_))
        todas == Palavras(texto_limpo)
        palavras == SubSeq(todas, 1, IF Len(todas) < max_palavras THEN Len(todas)
                                     ELSE max_palavras)
        juntas == JoinWith(Espaco, palavras)
        com_reticencias ==
            IF Len(palavras) = max_palavras /\ Len(todas) > max_palavras
            THEN Cat(juntas, Reticencias)
            ELSE juntas
    IN IF TLen(com_reticencias) > TITULO_MAX
       THEN Cat(Take(com_reticencias, TITULO_CORTE), Reticencias)
       ELSE com_reticencias

\* n words of w letters each
NPalavras(n, w, sep) == JoinWith(sep, [k \in 1..n |-> W(w)])

\* contents of 0..MaxWords words, short and long, between blanks of several kinds
TituloInputs ==
    {CatAll(<<lead, NPalavras(n, w, sep), trail>>) :
        n \in 0..MaxWords, w \in {1, 7, 8, 130},
        sep \in {Txt("sp", 1), Txt("sp", 3), Txt("nl", 1)},
        lead \in {<<>>, Txt("sp", 2)}, trail \in {<<>>, Txt("nl", 1)}}

TituloInit ==
    /\ texto \in TituloInputs
    /\ idioma = "portugues"
    /\ SegIdle
    /\ UtilIdle
    /\ JobIdle
    /\ num_variacoes = 1
    /\ idiomas_alvo = <<>>
    /\ fn_pc = "titulo"
    /\ titulo = None
    /\ ChunkIdle
    /\ AdaptIdle
    /\ VariacoesIdle

\* 'titulo_bloco': _extrair_titulo_automatico(conteudo)
ExtrairTitulo ==
    /\ fn_pc = "titulo"
    /\ titulo' = _extrair_titulo_automatico(texto, MAX_PALAVRAS)
    /\ fn_pc' = "fim"
    /\ UNCHANGED <<seg_vars, job_vars, util_vars, chunk_vars, adapt_vars, variacoes_vars>>

SpecTitulo == TituloInit /\ [][ExtrairTitulo]_vars

\* -------------------------------------------------- dividir_texto_em_chunks

MAX_CHARS_TTS == 4000

MaxFrases == 3

\* ' '.join(texto.split())
TextoLimpo(t) == JoinWith(Espaco, Palavras(t))

RECURSIVE SplitPonto(_, _, _)
\* t.split('. '): a period followed by a space ends a piece; both are removed
SplitPonto(t, cur, acc) ==
    IF t = <<>> THEN Append(acc, cur)
    ELSE IF t[1].c = "dot" /\ Len(t) >= 2 /\ t[2].c = "sp"
         THEN SplitPonto(Cat(Txt("sp", t[2].n - 1), Tail(Tail(t))), <<>>,
                         Append(acc, Cat(cur, Txt("dot", t[1].n - 1))))
         ELSE SplitPonto(Tail(t), Cat(cur, <<t[1]>>), acc)

\* frases: every piece that is not blank, trimmed, with a period appended
Frases(texto_limpo) ==
    LET pecas == SplitPonto(texto_limpo, <<>>, <<>>)
        cheias == SelectSeq(pecas, LAMBDA sentenca : Strip(sentenca) # <<>>)
    IN [k \in 1..Len(cheias) |-> Cat(Strip(cheias[k]), Txt("dot", 1))]

\* ChunkStep that forgets the joining space in the size test
ChunkStepSemEspaco(st, frase, max_chars_) ==
    IF TLen(st.current_chunk) + TLen(frase) <= max_chars_
    THEN [st EXCEPT !.current_chunk =
              IF @ # <<>> THEN Cat(@, Cat(Espaco, frase)) ELSE frase]
    ELSE [chunks |-> IF st.current_chunk # <<>>
                     THEN Append(st.chunks, Strip(st.current_chunk))
                     ELSE st.chunks,
          current_chunk |-> frase]

\* one iteration of 'for frase in frases' on st = [chunks, current_chunk]
ChunkStep(st, frase, max_chars_) ==
    IF TLen(st.current_chunk) + TLen(frase) + 1 <= max_chars_
    THEN [st EXCEPT !.current_chunk =
              IF @ # <<>> THEN Cat(@, Cat(Espaco, frase)) ELSE frase]
    ELSE [chunks |-> IF st.current_chunk # <<>>
                     THEN Append(st.chunks, Strip(st.current_chunk))
                     ELSE st.chunks,
          current_chunk |-> frase]

RECURSIVE ChunkFold(_, _, _)
ChunkFold(st, frases, max_chars_) ==
    IF frases = <<>>
    THEN (IF st.current_chunk # <<>>
          THEN Append(st.chunks, Strip(st.current_chunk))
          ELSE st.chunks)
    ELSE ChunkFold(ChunkStep(st, frases[1], max_chars_), Tail(frases), max_chars_)

\* [texto_limpo[i:i+max_chars] for i in range(0, len(texto_limpo), max_chars)]
FatiasFixas(texto_limpo, max_chars_) ==
    [k \in 1..((TLen(texto_limpo) + max_chars_ - 1) \div max_chars_) |->
        Slice(texto_limpo, (k - 1) * max_chars_, k * max_chars_)]

dividir_texto_em_chunks(texto_, max_chars_) ==
    LET texto_limpo == TextoLimpo(texto_)
        porFrases == ChunkFold([chunks |-> <<>>, current_chunk |-> <<>>],
                               Frases(texto_limpo), max_chars_)
    IN IF porFrases = <<>> THEN FatiasFixas(texto_limpo, max_chars_) ELSE porFrases

FraseLens == {1, 48, 1998, 1999, 2000, 4500}

\* 1..MaxFrases sentences; the last one with or without its period
FraseTexts ==
    {Cat(JoinWith(sep, [k \in 1..Len(ns) |-> Cat(W(ns[k]), Txt("dot", 1))]), fim) :
        ns \in SeqsBetween(FraseLens, 1, MaxFrases),
        sep \in {Espaco, NLNL},
        fim \in {<<>>, Cat(Espaco, W(30))}}

ChunkOddTexts ==
    {<<>>, Txt("sp", 3), W(9000), Txt("dot", 1),
     CatAll(<<Txt("dot", 1), Espaco, Txt("dot", 1), Espaco, W(5)>>),
     CatAll(<<W(5), Txt("dot", 2), Txt("sp", 2), W(5)>>),
     CatAll(<<Txt("nl", 1), W(5), Txt("dot", 1), W(5), Txt("nl", 1)>>)}

ChunkInputs == FraseTexts \cup ChunkOddTexts

MaxCharsInputs == {100, MAX_CHARS_TTS}

ChunksInit ==
    /\ texto \in ChunkInputs
    /\ idioma = "portugues"
    /\ SegIdle
    /\ UtilIdle
    /\ JobIdle
    /\ num_variacoes = 1
    /\ idiomas_alvo = <<>>
    /\ fn_pc = "chunks"
    /\ titulo = None
    /\ max_chars \in MaxCharsInputs
    /\ chunks = <<>>
    /\ AdaptIdle
    /\ VariacoesIdle

\* chunks = dividir_texto_em_chunks(texto, max_chars=4000)
DividirTexto ==
    /\ fn_pc = "chunks"
    /\ chunks' = dividir_texto_em_chunks(texto, max_chars)
    /\ fn_pc' = "fim"
    /\ UNCHANGED <<seg_vars, job_vars, util_vars, titulo, max_chars, adapt_vars, variacoes_vars>>

SpecChunks == ChunksInit /\ [][DividirTexto]_vars

\* ---------------------------------------------------- adaptar_culturalmente

modelos_disponiveis == <<"gemini-2.5-pro", "gemini-1.5-pro">>

AdaptMasters == {<<>>, W(100), CatAll(<<Txt("nl", 1), W(98), Txt("sp", 1)>>)}

\* response.text of a generation call: trimmed lengths on both sides of 50%
\* of a 100-character script, bare or wrapped in whitespace
AdaptOutputs ==
    {W(n) : n \in {40, 49, 50, 95, 130}}
        \cup {CatAll(<<Txt("sp", 1), W(n), Txt("nl", 1)>>) : n \in {40, 48, 95}}

CodigosIdioma == {"fr-FR", "pt-BR"}

AdaptarInit ==
    /\ texto = <<>>
    /\ idioma = "portugues"
    /\ SegIdle
    /\ UtilIdle
    /\ pc = "inicio" /\ status = "pending" /\ resultado = NoJob
    /\ roteiro_master \in AdaptMasters
    /\ premissa_detalhada = <<>> /\ bi = 1 /\ tentativa = 0
    /\ roteiro_acumulado = <<>> /\ prompt_bloco = NoPrompt /\ em_voo = {}
    /\ resultados = <<>> /\ falha_bloco = 0 /\ n_variacoes = 0 /\ var_i = 1
    /\ lang_i = 1 /\ roteiros = <<>> /\ audios = <<>> /\ chamadas = {}
    /\ num_variacoes = 1
    /\ idiomas_alvo = <<>>
    /\ fn_pc = "adaptar"
    /\ titulo = None
    /\ ChunkIdle
    /\ idioma_master \in CodigosIdioma
    /\ idioma_alvo \in CodigosIdioma
    /\ configurado = FALSE
    /\ modelo_i = 1
    /\ chamadas_api = <<>>
    /\ respostas = <<>>
    /\ roteiro_adaptado = None
    /\ VariacoesIdle

\* AdaptarIdentico that tidies the script before handing it back
AdaptarIdenticoAparado ==
    /\ fn_pc = "adaptar"
    /\ idioma_master = idioma_alvo
    /\ roteiro_adaptado' = Strip(roteiro_master)
    /\ fn_pc' = "fim"
    /\ UNCHANGED <<seg_vars, job_vars, util_vars, titulo, chunk_vars, variacoes_vars, idioma_master,
                   idioma_alvo, configurado, modelo_i, chamadas_api, respostas>>

\* if idioma_master == idioma_alvo: return roteiro_master
AdaptarIdentico ==
    /\ fn_pc = "adaptar"
    /\ idioma_master = idioma_alvo
    /\ roteiro_adaptado' = roteiro_master
    /\ fn_pc' = "fim"
    /\ UNCHANGED <<seg_vars, job_vars, util_vars, titulo, chunk_vars, variacoes_vars, idioma_master,
                   idioma_alvo, configurado, modelo_i, chamadas_api, respostas>>

\* the prompt is built and genai.configure(api_key=api_key) is called
AdaptarConfigurar ==
    /\ fn_pc = "adaptar"
    /\ idioma_master # idioma_alvo
    /\ configurado' = TRUE
    /\ fn_pc' = "gerar"
    /\ UNCHANGED <<seg_vars, job_vars, util_vars, titulo, chunk_vars, variacoes_vars, idioma_master,
                   idioma_alvo, modelo_i, chamadas_api, respostas, roteiro_adaptado>>

\* model.generate_content_async(prompt_adaptacao) answers
GerarOk ==
    /\ fn_pc = "gerar"
    /\ \E r \in AdaptOutputs : respostas' = Append(respostas, r)
    /\ chamadas_api' = Append(chamadas_api,
                              [prompt |-> "adaptacao", modelo |-> modelos_disponiveis[modelo_i]])
    /\ fn_pc' = "validar"
    /\ UNCHANGED <<seg_vars, job_vars, util_vars, titulo, chunk_vars, variacoes_vars, idioma_master,
                   idioma_alvo, configurado, modelo_i, roteiro_adaptado>>

\* the call raises: next model, or re-raise after the last one
GerarFalha ==
    /\ fn_pc = "gerar"
    /\ chamadas_api' = Append(chamadas_api,
                              [prompt |-> "adaptacao", modelo |-> modelos_disponiveis[modelo_i]])
    /\ IF modelo_i = Len(modelos_disponiveis)
       THEN fn_pc' = "erro" /\ modelo_i' = modelo_i
       ELSE fn_pc' = "gerar" /\ modelo_i' = modelo_i + 1
    /\ UNCHANGED <<seg_vars, job_vars, util_vars, titulo, chunk_vars, variacoes_vars, idioma_master,
                   idioma_alvo, configurado, respostas, roteiro_adaptado>>

\* roteiro_adaptado = response.text.strip(), the size figures, and the test
\* len_adaptado < len_original * 0.5
Validar ==
    /\ fn_pc = "validar"
    /\ LET adaptado == Strip(respostas[Len(respostas)])
           len_original == TLen(roteiro_master)
       IN IF len_original = 0
          THEN fn_pc' = "ZeroDivisionError" /\ roteiro_adaptado' = roteiro_adaptado
          ELSE IF 2 * TLen(adaptado) < len_original
               THEN fn_pc' = "retry" /\ roteiro_adaptado' = roteiro_adaptado
               ELSE fn_pc' = "fim" /\ roteiro_adaptado' = adaptado
    /\ UNCHANGED <<seg_vars, job_vars, util_vars, titulo, chunk_vars, variacoes_vars, idioma_master,
                   idioma_alvo, configurado, modelo_i, chamadas_api, respostas>>

\* RetryOk that validates the second answer like the first
RetryOkRevalida ==
    /\ fn_pc = "retry"
    /\ \E r \in AdaptOutputs : respostas' = Append(respostas, r)
    /\ chamadas_api' = Append(chamadas_api,
                              [prompt |-> "retry", modelo |-> modelos_disponiveis[modelo_i]])
    /\ fn_pc' = "validar"
    /\ UNCHANGED <<seg_vars, job_vars, util_vars, titulo, chunk_vars, variacoes_vars, idioma_master,
                   idioma_alvo, configurado, modelo_i, roteiro_adaptado>>

\* model.generate_content_async(prompt_retry) answers; its text is returned
RetryOk ==
    /\ fn_pc = "retry"
    /\ \E r \in AdaptOutputs :
          /\ respostas' = Append(respostas, r)
          /\ roteiro_adaptado' = Strip(r)
    /\ chamadas_api' = Append(chamadas_api,
                              [prompt |-> "retry", modelo |-> modelos_disponiveis[modelo_i]])
    /\ fn_pc' = "fim"
    /\ UNCHANGED <<seg_vars, job_vars, util_vars, titulo, chunk_vars, variacoes_vars, idioma_master,
                   idioma_alvo, configurado, modelo_i>>

\* the retry call raises; nothing catches it
RetryFalha ==
    /\ fn_pc = "retry"
    /\ chamadas_api' = Append(chamadas_api,
                              [prompt |-> "retry", modelo |-> modelos_disponiveis[modelo_i]])
    /\ fn_pc' = "erro"
    /\ UNCHANGED <<seg_vars, job_vars, util_vars, titulo, chunk_vars, variacoes_vars, idioma_master,
                   idioma_alvo, configurado, modelo_i, respostas, roteiro_adaptado>>

AdaptarNext ==
    \/ AdaptarIdentico
    \/ AdaptarConfigurar
    \/ GerarOk
    \/ GerarFalha
    \/ Validar
    \/ RetryOk
    \/ RetryFalha

SpecAdaptar == AdaptarInit /\ [][AdaptarNext]_vars

\* -------------------------------------------------- gerar_variacoes_roteiro

\* texto_completo[inicio:fim] of the size fallback, i counted from 1
FatiaVariacao(texto_completo_, num_variacoes_, i) ==
    LET tamanho_medio == TLen(texto_completo_) \div num_variacoes_
        inicio == (i - 1) * tamanho_medio
        fim == IF i < num_variacoes_ THEN i * tamanho_medio ELSE TLen(texto_completo_)
    IN Slice(texto_completo_, inicio, fim)

\* VariacoesFallback whose last slice stops at num_variacoes * tamanho_medio
VariacoesFallbackSemResto(texto_completo_, num_variacoes_) ==
    LET tamanho_medio == TLen(texto_completo_) \div num_variacoes_
        roteiro(i) == Strip(Slice(texto_completo_, (i - 1) * tamanho_medio, i * tamanho_medio))
    IN [i \in {j \in 1..num_variacoes_ : roteiro(j) # <<>>} |-> roteiro(i)]

\* 'if not matches': roteiros[variacao_i] for every slice that is not blank
\* once trimmed (a text without marker has none to clean in any slice)
VariacoesFallback(texto_completo_, num_variacoes_) ==
    LET roteiro(i) == Strip(FatiaVariacao(texto_completo_, num_variacoes_, i))
    IN [i \in {j \in 1..num_variacoes_ : roteiro(j) # <<>>} |-> roteiro(i)]

\* response.text without any marker
RespostasSemMarcador ==
    {CatAll(ps) : ps \in SeqsBetween({W(1), W(7), Txt("b", 4), Txt("sp", 2), Txt("nl", 1)}, 0, 3)}

\* modelos_disponiveis of gerar_variacoes_roteiro
modelos_variacoes == <<"gemini-2.0-pro", "gemini-2.0-flash">>

\* the markers '[=== VARIAÇÃO i ===]' and '[=== VARIAÇÃO i COMPLETA ===]', one
\* run each; padrao_variacao matches either of them whole
MarcadorInicio == <<"S1", "S2", "S3", "S4">>

MarcadorCompleta == <<"C1", "C2", "C3", "C4">>

VarInicio(i) == <<Run(MarcadorInicio[i], 20)>>

VarCompleta(i) == <<Run(MarcadorCompleta[i], 29)>>

\* the script of variation i as the provider wrote it
TextoVariacao(i) == W(100 + i)

\* a response of k variations: 1 as the prompt asks (its last line already
\* opened variation 1), 2 with every start marker, 3 with completion markers
\* only, 4 with start markers only
Formato(f, k) ==
    LET nl == Txt("nl", 1)
        parte(i) ==
            CatAll(<<IF f = 4 \/ f = 2 \/ (f = 1 /\ i > 1) THEN Cat(VarInicio(i), nl) ELSE <<>>,
                     TextoVariacao(i), nl,
                     IF f = 4 THEN <<>> ELSE Cat(VarCompleta(i), nl)>>)
    IN CatAll([i \in 1..k |-> parte(i)])

\* responses in the format requested by the prompt, for n variations
RespostasFormatadas(n) == {Formato(f, n) : f \in 1..3}

RespostasComMarcador ==
    {Formato(f, k) : f \in 1..4, k \in 1..(MaxVariacoes + 1)}
        \cup {Cat(VarInicio(1), VarCompleta(1)),
              CatAll(<<W(7), VarCompleta(1), Txt("sp", 2)>>)}

\* re.finditer(padrao_variacao, texto_completo): the runs that are markers
Matches(texto_completo_) ==
    SelectSeq([k \in 1..Len(texto_completo_) |-> k],
              LAMBDA k : \E i \in 1..Len(MarcadorInicio) :
                            texto_completo_[k].c \in {MarcadorInicio[i], MarcadorCompleta[i]})

\* VariacoesMarcadores that numbers the entries by the order they are kept in
VariacoesMarcadoresSemLacuna(texto_completo_) ==
    LET matches == Matches(texto_completo_)
        fim(i) == IF i < Len(matches) THEN matches[i + 1] - 1 ELSE Len(texto_completo_)
        roteiro(i) == Strip(SubSeq(texto_completo_, matches[i] + 1, fim(i)))
        cheios == SelectSeq([i \in 1..Len(matches) |-> i], LAMBDA i : roteiro(i) # <<>>)
    IN [n \in 1..Len(cheios) |-> roteiro(cheios[n])]

\* the 'else' of 'if not matches': the text after match i up to the next match,
\* trimmed, kept under variacao_i when it is not empty (none of the modelled
\* spans holds a FIM or COMPLETA marker to clean)
VariacoesMarcadores(texto_completo_) ==
    LET matches == Matches(texto_completo_)
        fim(i) == IF i < Len(matches) THEN matches[i + 1] - 1 ELSE Len(texto_completo_)
        roteiro(i) == Strip(SubSeq(texto_completo_, matches[i] + 1, fim(i)))
    IN [i \in {j \in 1..Len(matches) : roteiro(j) # <<>>} |-> roteiro(i)]

\* the variations call is about to be made, the job is running
VariacoesInit ==
    /\ texto = <<>>
    /\ idioma = "portugues"
    /\ SegIdle
    /\ UtilIdle
    /\ pc = "variacoes" /\ status = "running" /\ resultado = NoJob
    /\ roteiro_master = W(50)
    /\ premissa_detalhada = <<>> /\ bi = 1 /\ tentativa = 0
    /\ roteiro_acumulado = <<>> /\ prompt_bloco = NoPrompt /\ em_voo = {}
    /\ resultados = <<>> /\ falha_bloco = 0 /\ n_variacoes = 0 /\ var_i = 1
    /\ lang_i = 1 /\ roteiros = <<>> /\ audios = <<>> /\ chamadas = {}
    /\ num_variacoes \in 1..(MaxVariacoes + 1)
    /\ idiomas_alvo = <<>>
    /\ fn_pc = "gerar_variacoes"
    /\ titulo = None
    /\ ChunkIdle
    /\ AdaptIdle
    /\ VariacoesIdle

\* model.generate_content_async(prompt_variacoes) answers
GerarVariacoesOk ==
    /\ fn_pc = "gerar_variacoes"
    /\ texto_completo' \in RespostasSemMarcador \cup RespostasComMarcador
    /\ chamadas_api' = Append(chamadas_api, [prompt |-> "variacoes", modelo |-> modelos_variacoes[modelo_i]])
    /\ fn_pc' = "variacoes"
    /\ UNCHANGED <<seg_vars, job_vars, util_vars, titulo, chunk_vars, idioma_master, idioma_alvo,
                   configurado, modelo_i, respostas, roteiro_adaptado, variacoes_masters>>

\* the call raises: next model, or re-raise after the last one; the task's
\* handler marks the job failed
GerarVariacoesFalha ==
    /\ fn_pc = "gerar_variacoes"
    /\ chamadas_api' = Append(chamadas_api, [prompt |-> "variacoes", modelo |-> modelos_variacoes[modelo_i]])
    /\ IF modelo_i = Len(modelos_variacoes)
       THEN /\ fn_pc' = "erro"
            /\ status' = "failed"
            /\ resultado' = Res("erro_variacoes", <<>>, 0)
            /\ UNCHANGED modelo_i
       ELSE /\ modelo_i' = modelo_i + 1
            /\ UNCHANGED <<fn_pc, status, resultado>>
    /\ UNCHANGED <<seg_vars, util_vars, pc, roteiro_master, num_variacoes, idiomas_alvo,
                   premissa_detalhada, bi, tentativa, roteiro_acumulado, prompt_bloco,
                   em_voo, resultados, falha_bloco, n_variacoes, var_i, lang_i, roteiros,
                   audios, chamadas, titulo, chunk_vars, idioma_master, idioma_alvo,
                   configurado, respostas, roteiro_adaptado, variacoes_vars>>

\* the parser finds no marker and cuts the response by size
ParserFallback ==
    /\ fn_pc = "variacoes"
    /\ Matches(texto_completo) = <<>>
    /\ variacoes_masters' = VariacoesFallback(texto_completo, num_variacoes)
    /\ fn_pc' = "validacao"
    /\ UNCHANGED <<seg_vars, job_vars, util_vars, titulo, chunk_vars, adapt_vars, texto_completo>>

\* the parser finds markers and keeps the text that follows each
ParserMarcadores ==
    /\ fn_pc = "variacoes"
    /\ Matches(texto_completo) # <<>>
    /\ variacoes_masters' = VariacoesMarcadores(texto_completo)
    /\ fn_pc' = "validacao"
    /\ UNCHANGED <<seg_vars, job_vars, util_vars, titulo, chunk_vars, adapt_vars, texto_completo>>

\* ValidacaoFalha that also rejects a shortfall
ValidacaoFalhaIncompleta ==
    /\ fn_pc = "validacao"
    /\ Cardinality(DOMAIN variacoes_masters) < num_variacoes
    /\ fn_pc' = "erro"
    /\ status' = "failed"
    /\ resultado' = Res("erro_variacoes", <<>>, 0)
    /\ UNCHANGED <<seg_vars, util_vars, pc, roteiro_master, num_variacoes, idiomas_alvo,
                   premissa_detalhada, bi, tentativa, roteiro_acumulado, prompt_bloco,
                   em_voo, resultados, falha_bloco, n_variacoes, var_i, lang_i, roteiros,
                   audios, chamadas, titulo, chunk_vars, adapt_vars, variacoes_vars>>

\* 'if not roteiros: raise Exception(...)'; the task's handler marks the job
\* failed
ValidacaoFalha ==
    /\ fn_pc = "validacao"
    /\ DOMAIN variacoes_masters = {}
    /\ fn_pc' = "erro"
    /\ status' = "failed"
    /\ resultado' = Res("erro_variacoes", <<>>, 0)
    /\ UNCHANGED <<seg_vars, util_vars, pc, roteiro_master, num_variacoes, idiomas_alvo,
                   premissa_detalhada, bi, tentativa, roteiro_acumulado, prompt_bloco,
                   em_voo, resultados, falha_bloco, n_variacoes, var_i, lang_i, roteiros,
                   audios, chamadas, titulo, chunk_vars, adapt_vars, variacoes_vars>>

\* 'return roteiros'
ValidacaoOk ==
    /\ fn_pc = "validacao"
    /\ DOMAIN variacoes_masters # {}
    /\ fn_pc' = "fim"
    /\ UNCHANGED <<seg_vars, job_vars, util_vars, titulo, chunk_vars, adapt_vars, variacoes_vars>>

VariacoesNext ==
    \/ GerarVariacoesOk
    \/ GerarVariacoesFalha
    \/ ParserFallback
    \/ ParserMarcadores
    \/ ValidacaoFalha
    \/ ValidacaoOk

SpecVariacoes == VariacoesInit /\ [][VariacoesNext]_vars

\* ------------------------------------------------------------------ claims

\* the texts of the block results consumed so far
Saidas == [k \in 1..Len(resultados) |-> resultados[k].texto]

\* C1: block generation requests are issued strictly in segmentation order and
\* never in parallel: at most one call is in flight, it is the call of the block
\* right after the last block whose result was consumed, the k-th result consumed
\* is the result of block k, and the master script is stored only once every
\* block has exactly one consumed result.
C1_BlocksSequential ==
    /\ Cardinality(em_voo) <= 1
    /\ \A k \in em_voo : k = Len(resultados) + 1
    /\ (pc = "aguardando_bloco" =>
            em_voo = {Len(resultados) + 1} /\ blocos[bi].numero_bloco = Len(resultados) + 1)
    /\ \A k \in 1..Len(resultados) : resultados[k].bloco = k
    /\ Len(resultados) <= Len(blocos)
    /\ (roteiro_master # None => Len(resultados) = Len(blocos))

\* C1 witness: the call of block 3 is in flight after a retry, blocks 1 and 2 consumed
C1_Witness ==
    /\ pc = "aguardando_bloco"
    /\ em_voo = {3}
    /\ Len(resultados) = 2
    /\ tentativa > 0

\* C2 (amended): the context of a block's prompt is the last 2000 characters of the
\* accumulated script, the start marker is used for the first block and only for
\* it; the second prompt's context holds the whole first output when that output
\* is at most 1998 characters long, and otherwise the last 1998 characters of it
\* followed by the "\n\n" separator.
C2_ContextWindow ==
    pc = "aguardando_bloco" =>
        LET acumulado == CatAll([k \in 1..Len(Saidas) |-> Cat(Saidas[k], NLNL)])
            ctx == prompt_bloco.contexto
            resto == CONTEXTO_CHARS - TLen(NLNL)
        IN /\ (ctx = INICIO_DO_ROTEIRO <=> prompt_bloco.i = 1)
           /\ (prompt_bloco.i > 1 =>
                  ctx = Drop(acumulado, Max2(0, TLen(acumulado) - 2000)))
           /\ (prompt_bloco.i = 2 =>
                  IF TLen(Saidas[1]) <= resto
                  THEN Contains(ctx, Saidas[1])
                  ELSE ctx = Cat(Drop(Saidas[1], TLen(Saidas[1]) - resto), NLNL))

\* C2 witness: the second call is in flight and the first output was 2000 characters
C2_Witness ==
    /\ pc = "aguardando_bloco"
    /\ prompt_bloco.i = 2
    /\ TLen(Saidas[1]) = 2000

\* C2 as stated: the second call's prompt contains the first call's entire output
\* whenever that output is at most 2000 characters long, and its last 2000
\* characters otherwise.
C2_Original ==
    (pc = "aguardando_bloco" /\ prompt_bloco.i = 2) =>
        LET ctx == prompt_bloco.contexto
            o == Saidas[1]
        IN IF TLen(o) <= 2000
           THEN Contains(ctx, o)
           ELSE Contains(ctx, Drop(o, TLen(o) - 2000))

\* C3: when the call of a block has failed on its last attempt the build is
\* aborted: the task is over with status 'failed', no call is in flight and no
\* later block was requested, nothing is stored as roteiro_master, the job result
\* is the error and not a script, and no adaptation, variation or speech call is made.
C3_FailureAborts ==
    falha_bloco # 0 =>
        /\ pc = "fim"
        /\ status = "failed"
        /\ em_voo = {}
        /\ Len(resultados) = falha_bloco - 1
        /\ roteiro_master = None
        /\ resultado = Res("erro_bloco", <<>>, falha_bloco)
        /\ chamadas = {}

\* C3 witness: block 2 failed after block 1 had been accumulated, with target
\* languages and variations requested
C3_Witness ==
    /\ falha_bloco = 2
    /\ roteiro_acumulado # <<>>
    /\ idiomas_alvo # <<>>
    /\ num_variacoes > 1

\* C4: after k blocks the accumulated script is output_1 + "\n\n" + ... +
\* output_k + "\n\n" with no output trimmed, dropped or reordered, and the stored
\* master script is the N outputs joined by "\n\n", trimmed at both ends.
C4_Accumulation ==
    /\ roteiro_acumulado = CatAll([k \in 1..Len(Saidas) |-> Cat(Saidas[k], NLNL)])
    /\ (roteiro_master # None =>
            /\ Len(Saidas) = Len(blocos)
            /\ roteiro_master = Strip(JoinWith(NLNL, Saidas)))

\* C4 witness: a stored master of three blocks whose outputs carry whitespace at
\* their ends
C4_Witness ==
    /\ roteiro_master # None
    /\ roteiro_master # <<>>
    /\ Len(Saidas) = 3
    /\ \A k \in 1..3 : Saidas[k] # Strip(Saidas[k])

\* C5 as stated: for every non-empty text the result is a non-empty list of
\* blocks numbered 1..N in ascending order without gaps.
C5_Coverage ==
    (seg_pc = "fim" /\ texto # <<>>) =>
        /\ blocos # <<>>
        /\ \A k \in 1..Len(blocos) : blocos[k].numero_bloco = k

\* C6: a text shorter than 1000 characters (the empty text included) yields
\* exactly one block, numbered 1, whose content is the text unchanged, with
\* offsets 0 and len(text).
C6_ShortText ==
    (seg_pc = "fim" /\ TLen(texto) < 1000) =>
        /\ Len(blocos) = 1
        /\ blocos[1].numero_bloco = 1
        /\ blocos[1].conteudo = texto
        /\ blocos[1].inicio_char = 0
        /\ blocos[1].fim_char = TLen(texto)

\* C6 witness: a segmented short text with blanks at its ends
C6_Witness ==
    /\ seg_pc = "fim"
    /\ TLen(texto) < 1000
    /\ texto # <<>>
    /\ Strip(texto) # texto

\* C7 as stated: a text holding at least one well-formed PARTE/META/REGRAS
\* triplet yields one 'manual' block per triplet and no 'auto' block, whatever
\* the length of the text.
C7_ManualExclusive ==
    (seg_pc = "fim" /\ RegexFindAll(texto, 0) # <<>>) =>
        /\ Len(blocos) = Len(RegexFindAll(texto, 0))
        /\ \A k \in 1..Len(blocos) : blocos[k].tipo_demarcacao = "manual"

\* C8 as stated: on the paragraph path no block's content is longer than 2000
\* characters, separators counted, single-paragraph blocks included.
C8_MaxBlockSize ==
    (seg_pc = "fim" /\ estrategia = "paragrafos") =>
        \A k \in 1..Len(blocos) : TLen(blocos[k].conteudo) <= 2000

\* a step of the paragraph loop that closed the open block
FechouBloco ==
    /\ seg_pc = "paragrafos"
    /\ seg_pc' = "paragrafos"
    /\ Len(blocos') = Len(blocos) + 1

\* C9 (amended): on the paragraph path a block other than the last (a block the
\* loop closed) has at least 1200 characters unless it was closed because the next
\* paragraph would have brought the running count to 2000 or more.
C9_MinBlockSize ==
    [][FechouBloco =>
          \/ TLen(blocos'[Len(blocos')].conteudo) >= 1200
          \/ chars_bloco_atual + TLen(paragrafos[idx]) >= 2000]_vars

\* C9 witness: the loop has closed a first block shorter than 1200 characters
C9_Witness ==
    /\ seg_pc = "paragrafos"
    /\ Len(blocos) >= 1
    /\ TLen(blocos[1].conteudo) < 1200

\* C9 as stated: a block other than the last has at least 1200 characters unless
\* the paragraph that closed it began with a transition cue.
C9_Original ==
    [][FechouBloco =>
          \/ TLen(blocos'[Len(blocos')].conteudo) >= 1200
          \/ tem_transicao(paragrafos[idx], PALAVRAS_TRANSICAO(idioma))]_vars

\* the break condition of the claim, on the loop state before a paragraph
CondicaoQuebra ==
    LET c == chars_bloco_atual
        L == TLen(paragrafos[idx])
    IN \/ /\ c >= 1200
          /\ \/ c + L >= 1600
             \/ tem_transicao(paragrafos[idx], PALAVRAS_TRANSICAO(idioma))
             \/ idx = Len(paragrafos)
       \/ c + L >= 2000

\* the open block is closed and a new one started with the paragraph
Fecha ==
    /\ blocos' = Append(blocos,
                        Bloco(Len(blocos) + 1, JoinWith(NLNL, bloco_atual),
                              inicio_bloco_char,
                              inicio_bloco_char + TLen(JoinWith(NLNL, bloco_atual)),
                              "auto", None, None))
    /\ bloco_atual' = <<paragrafos[idx]>>
    /\ chars_bloco_atual' = TLen(paragrafos[idx])

\* the paragraph is appended to the open block
Anexa ==
    /\ blocos' = blocos
    /\ bloco_atual' = Append(bloco_atual, paragrafos[idx])
    /\ chars_bloco_atual' = chars_bloco_atual + TLen(paragrafos[idx])

PassoParagrafo == seg_pc = "paragrafos" /\ idx <= Len(paragrafos) /\ idx' = idx + 1

\* C10 (amended): the open block is closed, and a new one started with the
\* paragraph, exactly when the open block already holds a paragraph and
\* (c >= 1200 and (c+L >= 1600 or transition cue or last paragraph)) or
\* c+L >= 2000; in every other case the paragraph is appended to the open block.
C10_BreakRule ==
    [][PassoParagrafo =>
          IF bloco_atual # <<>> /\ CondicaoQuebra THEN Fecha ELSE Anexa]_vars

\* C10 witness: a first paragraph of 2000 or more characters was appended to the
\* empty open block
C10_Witness ==
    /\ seg_pc = "paragrafos"
    /\ idx = 2
    /\ blocos = <<>>
    /\ Len(bloco_atual) = 1
    /\ chars_bloco_atual >= 2000

\* C10 as stated: the open block is closed exactly when the break condition
\* holds, and the paragraph is appended in every other case.
C10_Original ==
    [][PassoParagrafo => IF CondicaoQuebra THEN Fecha ELSE Anexa]_vars

\* the contents of the blocks, in order
Conteudos == [k \in 1..Len(blocos) |-> blocos[k].conteudo]

\* C11 as stated: on the sentence path the contents of the blocks, concatenated
\* in order, reproduce the whole input text: nothing is dropped or duplicated.
C11_SentencesContiguous ==
    (seg_pc = "fim" /\ estrategia = "sentencas") => CatAll(Conteudos) = texto

\* C12: the blocks of one result all carry the same tipo_demarcacao, 'manual'
\* or 'auto', and a block has meta and regras other than None exactly when it is
\* 'manual' (an 'auto' block has both None).
C12_UniformKind ==
    seg_pc = "fim" =>
        /\ \A j, k \in 1..Len(blocos) :
               blocos[j].tipo_demarcacao = blocos[k].tipo_demarcacao
        /\ \A k \in 1..Len(blocos) :
               /\ blocos[k].tipo_demarcacao \in {"manual", "auto"}
               /\ (blocos[k].tipo_demarcacao = "manual" =>
                      blocos[k].meta # None /\ blocos[k].regras # None)
               /\ (blocos[k].tipo_demarcacao = "auto" =>
                      blocos[k].meta = None /\ blocos[k].regras = None)

\* C12 witness: a manual result of two blocks
C12_Witness ==
    /\ seg_pc = "fim"
    /\ estrategia = "manual"
    /\ Len(blocos) = 2
    /\ blocos[2].meta # <<>>

\* C13: in every strategy the offsets of the blocks never decrease:
\* inicio_char(b) <= fim_char(b) <= inicio_char(b') <= fim_char(b') for
\* consecutive blocks b, b'.
C13_OffsetsMonotone ==
    \A k \in 1..Len(blocos) :
        /\ blocos[k].inicio_char <= blocos[k].fim_char
        /\ (k < Len(blocos) => blocos[k].fim_char <= blocos[k + 1].inicio_char)

\* C13 witness: a sentence-path result of two or more non-empty blocks
C13_Witness ==
    /\ seg_pc = "fim"
    /\ estrategia = "sentencas"
    /\ Len(blocos) >= 2
    /\ blocos[2].fim_char > blocos[2].inicio_char

\* C14 as stated: the title is never empty: a non-empty content gets a non-empty
\* label and an empty content gets a fixed placeholder.
C14_TitleNeverEmpty ==
    (fn_pc = "fim" /\ titulo # None) => titulo # <<>>

\* C15: every chunk is non-empty and at most max_chars long, except a chunk that
\* is one single sentence longer than max_chars; a chunk of two or more
\* sentences never exceeds max_chars.
C15_ChunkSize ==
    \A k \in 1..Len(chunks) :
        /\ chunks[k] # <<>>
        /\ \/ TLen(chunks[k]) <= max_chars
           \/ \E j \in 1..Len(Frases(TextoLimpo(texto))) :
                 chunks[k] = Frases(TextoLimpo(texto))[j]

\* C15 witness: a chunk of two sentences beside a single sentence longer than
\* max_chars
C15_Witness ==
    /\ fn_pc = "fim"
    /\ Len(chunks) >= 2
    /\ \E k \in 1..Len(chunks) : TLen(chunks[k]) > max_chars
    /\ \E k \in 1..Len(chunks) :
          /\ TLen(chunks[k]) = max_chars
          /\ Contains(chunks[k], <<Run("dot", 1), Run("sp", 1)>>)

\* C16 as stated: the chunks joined by single spaces are exactly the
\* whitespace-collapsed text: nothing added, lost or reordered.
C16_ChunkReassembly ==
    (fn_pc = "fim" /\ max_chars > 0) =>
        JoinWith(Espaco, chunks) = TextoLimpo(texto)

\* C17: when idioma_master equals idioma_alvo the script is returned unchanged,
\* the empty one included, with no generation call and no provider
\* configuration.
C17_Identity ==
    (idioma_master = idioma_alvo /\ idioma_master \in CodigosIdioma) =>
        /\ chamadas_api = <<>>
        /\ ~configurado
        /\ fn_pc \in {"adaptar", "fim"}
        /\ fn_pc = "fim" => roteiro_adaptado = roteiro_master

\* C17 witness: the identity call returned the empty script
C17_Witness ==
    /\ fn_pc = "fim"
    /\ idioma_master = idioma_alvo
    /\ idioma_master \in CodigosIdioma
    /\ roteiro_master = <<>>
    /\ roteiro_adaptado = <<>>

\* C18 (amended): at most one call ever carries the emphatic prompt; when the
\* first answer, trimmed, is shorter than half the master script, a return is
\* preceded by exactly that one retry as the last call, and the value returned
\* is the retry's answer trimmed of surrounding whitespace, whatever its length.
C18_RetryOnce ==
    /\ Cardinality({k \in DOMAIN chamadas_api : chamadas_api[k].prompt = "retry"}) <= 1
    /\ (fn_pc = "fim" /\ respostas # <<>>
          /\ 2 * TLen(Strip(respostas[1])) < TLen(roteiro_master)) =>
            /\ Len(respostas) = 2
            /\ chamadas_api[Len(chamadas_api)].prompt = "retry"
            /\ roteiro_adaptado = Strip(respostas[2])

\* C18 witness: the retry's answer is again below 50% and is what was returned
C18_Witness ==
    /\ fn_pc = "fim"
    /\ Len(respostas) = 2
    /\ 2 * TLen(respostas[1]) < TLen(roteiro_master)
    /\ 2 * TLen(respostas[2]) < TLen(roteiro_master)
    /\ roteiro_adaptado = Strip(respostas[2])

\* C18 as stated: when the first generated adaptation is shorter than 50% of
\* the master script, the function returns the retry's output itself.
C18_Original ==
    (fn_pc = "fim" /\ respostas # <<>>
        /\ 2 * TLen(respostas[1]) < TLen(roteiro_master)) =>
            /\ Len(respostas) = 2
            /\ roteiro_adaptado = respostas[2]

\* C19 as stated: when the first generated adaptation has at least 50% of the
\* master script's length, the function makes no retry and returns that first
\* output.
C19_NoRetry ==
    (respostas # <<>> /\ fn_pc # "validar"
        /\ 2 * TLen(respostas[1]) >= TLen(roteiro_master)) =>
            /\ fn_pc = "fim"
            /\ Len(chamadas_api) = modelo_i
            /\ roteiro_adaptado = respostas[1]

\* C20 (amended): for a response without marker the parser cuts num_variacoes
\* consecutive slices of len // num_variacoes characters (the last one takes
\* the remainder), trims each, and returns the non-blank ones under their
\* slice number: at most num_variacoes entries, none empty, whose lengths sum
\* to at most the length of the response; it raises exactly when the
\* response is empty or blank.
C20_FallbackSlices ==
    (texto_completo # None /\ Matches(texto_completo) = <<>>) =>
        LET chaves == DOMAIN variacoes_masters
            fatia(i) == FatiaVariacao(texto_completo, num_variacoes, i)
            Soma[i \in 0..num_variacoes] ==
                IF i = 0 THEN 0
                ELSE Soma[i - 1] + (IF i \in chaves THEN TLen(variacoes_masters[i]) ELSE 0)
        IN /\ fn_pc \in {"validacao", "fim", "erro"} =>
                /\ chaves = {i \in 1..num_variacoes : Strip(fatia(i)) # <<>>}
                /\ \A i \in chaves : variacoes_masters[i] = Strip(fatia(i))
                /\ CatAll([i \in 1..num_variacoes |-> fatia(i)]) = texto_completo
                /\ \A i \in 1..(num_variacoes - 1) :
                      TLen(fatia(i)) = TLen(texto_completo) \div num_variacoes
                /\ Soma[num_variacoes] <= TLen(texto_completo)
           /\ fn_pc = "erro" => Strip(texto_completo) = <<>>
           /\ fn_pc = "fim" => Strip(texto_completo) # <<>>

\* C20 witness: three variations asked, the response has no marker, one slice
\* is blank and two entries are returned
C20_Witness ==
    /\ fn_pc = "fim"
    /\ texto_completo # None
    /\ Matches(texto_completo) = <<>>
    /\ num_variacoes = 3
    /\ DOMAIN variacoes_masters = {1, 3}

\* C20 as stated: with zero markers the function does not raise and returns
\* exactly num_variacoes entries whose lengths sum to the response length.
C20_Original ==
    (texto_completo # None /\ Matches(texto_completo) = <<>> /\ fn_pc \in {"fim", "erro"}) =>
        LET chaves == DOMAIN variacoes_masters
            Soma[i \in 0..num_variacoes] ==
                IF i = 0 THEN 0
                ELSE Soma[i - 1] + (IF i \in chaves THEN TLen(variacoes_masters[i]) ELSE 0)
        IN /\ fn_pc = "fim"
           /\ chaves = 1..num_variacoes
           /\ Soma[num_variacoes] = TLen(texto_completo)

\* C21: once a response has been received, gerar_variacoes_roteiro raises, and
\* the job ends 'failed', exactly when no variation was extracted; with at
\* least one it returns what it extracted, without another generation call.
C21_RaiseIffNone ==
    texto_completo # None =>
        /\ fn_pc \in {"fim", "erro"} => (fn_pc = "erro" <=> DOMAIN variacoes_masters = {})
        /\ fn_pc = "erro" => status = "failed"
        /\ fn_pc # "erro" => status = "running"
        /\ Len(chamadas_api) = modelo_i
        /\ \A k \in 1..Len(chamadas_api) : chamadas_api[k].modelo = modelos_variacoes[k]

\* C21 witness: fewer variations than asked were extracted and returned
C21_Witness ==
    /\ fn_pc = "fim"
    /\ status = "running"
    /\ DOMAIN variacoes_masters # {}
    /\ Cardinality(DOMAIN variacoes_masters) < num_variacoes

\* C22 as stated: for a response in the requested format the entry variacao_i
\* is the text of variation i, for every i.
C22_FormattedResponse ==
    (fn_pc \in {"fim", "erro"} /\ texto_completo \in RespostasFormatadas(num_variacoes)) =>
        \A i \in 1..num_variacoes :
            /\ i \in DOMAIN variacoes_masters
            /\ variacoes_masters[i] = TextoVariacao(i)

\* C29 as stated: the mapping has at most num_variacoes entries and its keys
\* are variacao_1 .. variacao_k without gap.
C29_KeysDense ==
    fn_pc = "fim" =>
        \E k \in 0..num_variacoes : DOMAIN variacoes_masters = 1..k

C28_TerminalStatus ==
    /\ <>[](pc = "fim" /\ status \in {"completed", "failed"})
    /\ [][(status \in {"completed", "failed"}) => (status' = status)]_vars
    /\ [](status = "completed" => roteiro_master # None)

\* C28 witness: a task that went through adaptation and audio ended 'completed'
C28_Witness ==
    /\ pc = "fim"
    /\ status = "completed"
    /\ roteiro_master # None
    /\ audios # <<>>

\* C24: a speech synthesis call that fails for one language leaves the job
\* 'running' and the loop goes on to the next language; a job that called the
\* synthesis is never 'failed', and once the audio stage is entered the job
\* ends 'completed'.
C24_TtsFailureNotFatal ==
    /\ [][(pc \in {"tts", "var_tts"} /\ lang_i <= Len(roteiros)) =>
             (status' = "running" /\ lang_i' = lang_i + 1 /\ pc' = pc)]_vars
    /\ []("tts" \in chamadas => status # "failed")
    /\ (pc \in {"tts", "var_tts"}) ~> (pc = "fim" /\ status = "completed")

\* C24 witness: the synthesis failed for one language, succeeded for another,
\* and the job completed
C24_Witness ==
    /\ pc = "fim"
    /\ status = "completed"
    /\ "tts" \in chamadas
    /\ audios # <<>>
    /\ Len(audios) < Len(roteiros)

\* --------------------------------------------- _chamar_api_com_tentativas

\* a response without parts (empty or blocked), and a call that raised
RespostaVazia == None

Excecao == <<Run("Exception", 0)>>

Falhas == {RespostaVazia, Excecao}

\* the prompts the task sends through the helper: prompt1 and prompt_bloco
PromptsTentativas == {[i |-> 0, tipo |-> "premissa"], [i |-> 1, tipo |-> "manual"]}

TentativasInit ==
    /\ texto = <<>>
    /\ idioma = "portugues"
    /\ SegIdle
    /\ pc = "inicio" /\ status = "pending" /\ resultado = NoJob
    /\ roteiro_master = None
    /\ premissa_detalhada = <<>> /\ bi = 1 /\ tentativa = 0
    /\ roteiro_acumulado = <<>> /\ em_voo = {}
    /\ resultados = <<>> /\ falha_bloco = 0 /\ n_variacoes = 0 /\ var_i = 1
    /\ lang_i = 1 /\ roteiros = <<>> /\ audios = <<>> /\ chamadas = {}
    /\ num_variacoes = 1
    /\ idiomas_alvo = <<>>
    /\ prompt_bloco \in PromptsTentativas
    /\ fn_pc = "tentar"
    /\ titulo = None
    /\ ChunkIdle
    /\ AdaptIdle
    /\ VariacoesIdle
    /\ max_tentativas \in 0..MAX_TENTATIVAS
    /\ esperas = 0
    /\ retorno = None
    /\ agora = 1
    /\ cliente = FALSE
    /\ LimiterIdle
    /\ BreakerIdle

\* generate_content_async of attempt i, as the helper issues it
ChamadaTentativa == [prompt |-> prompt_bloco, tentativa |-> tentativa]

\* TentativaFalha that sleeps after the last attempt too, before it raises
TentativaFalhaSempre ==
    /\ fn_pc = "tentar"
    /\ tentativa < max_tentativas
    /\ chamadas_api' = Append(chamadas_api, ChamadaTentativa)
    /\ \E r \in Falhas : respostas' = Append(respostas, r)
    /\ esperas' = esperas + 1
    /\ IF tentativa < max_tentativas - 1
       THEN /\ tentativa' = tentativa + 1
            /\ UNCHANGED fn_pc
       ELSE /\ fn_pc' = "erro"
            /\ UNCHANGED tentativa
    /\ UNCHANGED <<seg_vars, pc, status, resultado, roteiro_master, num_variacoes,
                   idiomas_alvo, premissa_detalhada, bi, roteiro_acumulado, prompt_bloco,
                   em_voo, resultados, falha_bloco, n_variacoes, var_i, lang_i, roteiros,
                   audios, chamadas, titulo, chunk_vars, idioma_master, idioma_alvo,
                   configurado, modelo_i, roteiro_adaptado, variacoes_vars,
                   max_tentativas, retorno, agora, cliente, limiter_vars, breaker_vars>>

\* attempt i: if response and response.parts: return response.text
TentativaOk ==
    /\ fn_pc = "tentar"
    /\ tentativa < max_tentativas
    /\ chamadas_api' = Append(chamadas_api, ChamadaTentativa)
    /\ \E r \in GenOutputs :
          /\ respostas' = Append(respostas, r)
          /\ retorno' = r
    /\ fn_pc' = "retorno"
    /\ UNCHANGED <<seg_vars, job_vars, titulo, chunk_vars, idioma_master, idioma_alvo,
                   configurado, modelo_i, roteiro_adaptado, variacoes_vars,
                   max_tentativas, esperas, agora, cliente, limiter_vars, breaker_vars>>

\* attempt i failed (no parts, or the call raised): sleep and go on, or raise
\* when it was the last attempt
TentativaFalha ==
    /\ fn_pc = "tentar"
    /\ tentativa < max_tentativas
    /\ chamadas_api' = Append(chamadas_api, ChamadaTentativa)
    /\ \E r \in Falhas : respostas' = Append(respostas, r)
    /\ IF tentativa < max_tentativas - 1
       THEN /\ esperas' = esperas + 1
            /\ tentativa' = tentativa + 1
            /\ UNCHANGED fn_pc
       ELSE /\ fn_pc' = "erro"
            /\ UNCHANGED <<esperas, tentativa>>
    /\ UNCHANGED <<seg_vars, pc, status, resultado, roteiro_master, num_variacoes,
                   idiomas_alvo, premissa_detalhada, bi, roteiro_acumulado, prompt_bloco,
                   em_voo, resultados, falha_bloco, n_variacoes, var_i, lang_i, roteiros,
                   audios, chamadas, titulo, chunk_vars, idioma_master, idioma_alvo,
                   configurado, modelo_i, roteiro_adaptado, variacoes_vars,
                   max_tentativas, retorno, agora, cliente, limiter_vars, breaker_vars>>

\* the loop made no attempt at all: raise Exception("Falha na API após ...")
TentativasEsgotadas ==
    /\ fn_pc = "tentar"
    /\ max_tentativas = 0
    /\ fn_pc' = "erro"
    /\ UNCHANGED <<seg_vars, job_vars, titulo, chunk_vars, adapt_vars, variacoes_vars,
                   util_vars>>

TentativasNext ==
    \/ TentativaOk
    \/ TentativaFalha
    \/ TentativasEsgotadas

SpecTentativas == TentativasInit /\ [][TentativasNext]_vars

\* C23: the helper makes at most max_tentativas calls; it returns the text of
\* the first call whose response has parts, every call before it having failed,
\* and that call is the last one made; a response without parts is a failed
\* attempt like a raised error; it raises only when max_tentativas attempts
\* were made and all of them failed; it sleeps once after every failed attempt
\* that is followed by another one, and never after the last.
C23_Tentativas ==
    /\ Len(chamadas_api) <= max_tentativas
    /\ Len(respostas) = Len(chamadas_api)
    /\ fn_pc = "retorno" =>
          /\ respostas # <<>>
          /\ respostas[Len(respostas)] \notin Falhas
          /\ retorno = respostas[Len(respostas)]
          /\ \A j \in 1..(Len(respostas) - 1) : respostas[j] \in Falhas
          /\ esperas = Len(respostas) - 1
    /\ fn_pc = "erro" =>
          /\ Len(chamadas_api) = max_tentativas
          /\ \A j \in 1..Len(respostas) : respostas[j] \in Falhas
          /\ esperas = Max2(0, max_tentativas - 1)
    /\ fn_pc = "tentar" =>
          /\ \A j \in 1..Len(respostas) : respostas[j] \in Falhas
          /\ esperas = Len(respostas)
          /\ tentativa = Len(respostas)

\* C23 witness: an empty response and a raised error were retried and the
\* third call returned a text
C23_Witness ==
    /\ fn_pc = "retorno"
    /\ Len(chamadas_api) = MAX_TENTATIVAS
    /\ respostas[1] = RespostaVazia
    /\ respostas[2] = Excecao
    /\ esperas = 2
    /\ retorno \in GenOutputs

\* ------------------------------------------------- cache_utils.RateLimiter

MaxRelogio == 4

MaxRequests == 2

MaxJanela == 2

MaxChamadas == 3

NumChamadores == 2

Chamadores == 1..NumChamadores

\* the key exists: it holds something and its time to live (-1: none) is not over
Vivo(k) == k.valor # {} /\ (k.expira = -1 \/ agora < k.expira)

\* members of the sorted set; the member str(now) and its score now are one number
Membros(k) == IF Vivo(k) THEN k.valor ELSE {}

\* a set that became empty is no key at all
Chave(membros, expira) ==
    IF membros = {} THEN SemChave ELSE [valor |-> membros, expira |-> expira]

\* client.zremrangebyscore(key, 0, window_start)
zremrangebyscore(k, min, max) ==
    Chave({s \in Membros(k) : ~(min <= s /\ s <= max)}, k.expira)

\* client.zcard(key)
zcard(k) == Cardinality(Membros(k))

\* client.zadd(key, {str(now): now}): a member that is already there is kept once
zadd(k, now) ==
    IF Vivo(k)
    THEN [valor |-> k.valor \cup {now}, expira |-> k.expira]
    ELSE [valor |-> {now}, expira |-> -1]

\* client.expire(key, window_seconds)
expire(k, seconds) ==
    IF Vivo(k) THEN [valor |-> k.valor, expira |-> agora + seconds] ELSE SemChave

Decisao(now, permitido) == [now |-> now, permitido |-> permitido]

LimiterInit ==
    /\ texto = <<>>
    /\ idioma = "portugues"
    /\ SegIdle
    /\ JobIdle
    /\ roteiro_master = None
    /\ num_variacoes = 1
    /\ idiomas_alvo = <<>>
    /\ prompt_bloco = NoPrompt
    /\ FnIdle
    /\ TentIdle
    /\ agora = 1
    /\ cliente \in BOOLEAN
    /\ max_requests \in 1..MaxRequests
    /\ window_seconds \in 1..MaxJanela
    /\ ratelimit = SemChave
    /\ chamada = <<>>
    /\ decisoes = <<>>
    /\ BreakerIdle

\* the clock goes on between two store operations or two calls
Tique ==
    /\ agora < MaxRelogio
    /\ agora' = agora + 1
    /\ UNCHANGED <<seg_vars, job_vars, fn_vars, tent_vars, cliente, limiter_vars,
                   breaker_vars>>

\* RateLimiter.is_allowed, one call from start to return
IsAllowed ==
    /\ Len(decisoes) < MaxChamadas
    /\ IF ~cliente
       THEN /\ decisoes' = Append(decisoes, Decisao(agora, TRUE))
            /\ UNCHANGED ratelimit
       ELSE LET now == agora
                window_start == now - window_seconds
                limpo == zremrangebyscore(ratelimit, 0, window_start)
                count == zcard(limpo)
            IN  IF count < max_requests
                THEN /\ ratelimit' = expire(zadd(limpo, now), window_seconds)
                     /\ decisoes' = Append(decisoes, Decisao(now, TRUE))
                ELSE /\ ratelimit' = limpo
                     /\ decisoes' = Append(decisoes, Decisao(now, FALSE))
    /\ UNCHANGED <<seg_vars, job_vars, fn_vars, tent_vars, agora, cliente, max_requests,
                   window_seconds, chamada, breaker_vars>>

LimiterNext ==
    \/ IsAllowed
    \/ Tique

SpecLimiter == LimiterInit /\ [][LimiterNext]_vars

\* the calls before call i that were allowed inside the window that ends at call i
NaJanela(i) ==
    {j \in 1..(i - 1) : decisoes[j].permitido /\ decisoes[j].now > decisoes[i].now - window_seconds}

\* C25: with the store available, of the successive calls made within one
\* window (less than window_seconds after the first call) the first
\* max_requests return True and every further one returns False; a denied call
\* takes no slot: a call is allowed exactly when fewer than max_requests
\* allowed calls lie in its window.
C25_LimitePorJanela ==
    cliente =>
        \A i \in 1..Len(decisoes) :
            /\ decisoes[i].now < decisoes[1].now + window_seconds =>
                   (decisoes[i].permitido <=> i <= max_requests)
            /\ decisoes[i].permitido <=> Cardinality(NaJanela(i)) < max_requests

\* ---------------------------- RateLimiter.is_allowed, several callers at once

Parada == [pc |-> "idle", now |-> 0]

ConcorrenteInit ==
    /\ texto = <<>>
    /\ idioma = "portugues"
    /\ SegIdle
    /\ JobIdle
    /\ roteiro_master = None
    /\ num_variacoes = 1
    /\ idiomas_alvo = <<>>
    /\ prompt_bloco = NoPrompt
    /\ FnIdle
    /\ TentIdle
    /\ agora = 1
    /\ cliente = TRUE
    /\ max_requests \in 1..MaxRequests
    /\ window_seconds \in 1..MaxJanela
    /\ ratelimit = SemChave
    /\ chamada = [p \in Chamadores |-> Parada]
    /\ decisoes = <<>>
    /\ BreakerIdle

EmCurso == {p \in Chamadores : chamada[p].pc # "idle"}

\* a caller enters is_allowed: client found, now = datetime.utcnow().timestamp()
Entrar(p) ==
    /\ chamada[p].pc = "idle"
    /\ cliente
    /\ Len(decisoes) + Cardinality(EmCurso) < MaxChamadas
    /\ chamada' = [chamada EXCEPT ![p] = [pc |-> "zrem", now |-> agora]]
    /\ UNCHANGED <<seg_vars, job_vars, fn_vars, tent_vars, agora, cliente, max_requests,
                   window_seconds, ratelimit, decisoes, breaker_vars>>

\* client.zremrangebyscore(key, 0, window_start)
Zrem(p) ==
    /\ chamada[p].pc = "zrem"
    /\ ratelimit' = zremrangebyscore(ratelimit, 0, chamada[p].now - window_seconds)
    /\ chamada' = [chamada EXCEPT ![p].pc = "zcard"]
    /\ UNCHANGED <<seg_vars, job_vars, fn_vars, tent_vars, agora, cliente, max_requests,
                   window_seconds, decisoes, breaker_vars>>

\* count = client.zcard(key); if count < self.max_requests: ... else: return False
Zcard(p) ==
    /\ chamada[p].pc = "zcard"
    /\ IF zcard(ratelimit) < max_requests
       THEN /\ chamada' = [chamada EXCEPT ![p].pc = "zadd"]
            /\ UNCHANGED decisoes
       ELSE /\ chamada' = [chamada EXCEPT ![p] = Parada]
            /\ decisoes' = Append(decisoes, Decisao(chamada[p].now, FALSE))
    /\ UNCHANGED <<seg_vars, job_vars, fn_vars, tent_vars, agora, cliente, max_requests,
                   window_seconds, ratelimit, breaker_vars>>

\* client.zadd(key, {str(now): now})
Zadd(p) ==
    /\ chamada[p].pc = "zadd"
    /\ ratelimit' = zadd(ratelimit, chamada[p].now)
    /\ chamada' = [chamada EXCEPT ![p].pc = "expire"]
    /\ UNCHANGED <<seg_vars, job_vars, fn_vars, tent_vars, agora, cliente, max_requests,
                   window_seconds, decisoes, breaker_vars>>

\* client.expire(key, self.window_seconds); return True
Expire(p) ==
    /\ chamada[p].pc = "expire"
    /\ ratelimit' = expire(ratelimit, window_seconds)
    /\ chamada' = [chamada EXCEPT ![p] = Parada]
    /\ decisoes' = Append(decisoes, Decisao(chamada[p].now, TRUE))
    /\ UNCHANGED <<seg_vars, job_vars, fn_vars, tent_vars, agora, cliente, max_requests,
                   window_seconds, breaker_vars>>

ConcorrenteNext ==
    \/ \E p \in Chamadores : Entrar(p)
    \/ \E p \in Chamadores : Zrem(p)
    \/ \E p \in Chamadores : Zcard(p)
    \/ \E p \in Chamadores : Zadd(p)
    \/ \E p \in Chamadores : Expire(p)
    \/ Tique

SpecConcorrente == ConcorrenteInit /\ [][ConcorrenteNext]_vars

\* no two calls read the same instant
LeiturasDistintas ==
    \A i, j \in 1..Len(decisoes) : i # j => decisoes[i].now # decisoes[j].now

\* the allowed calls whose instant lies in the window that ends at t
PermitidasAte(t) ==
    {i \in 1..Len(decisoes) :
        /\ decisoes[i].permitido
        /\ decisoes[i].now > t - window_seconds
        /\ decisoes[i].now <= t}

\* C30: when the store operations of several is_allowed calls for one
\* identifier interleave, the calls that return True within any one window
\* are still at most max_requests (stated for an available store and calls
\* that read distinct instants, so that only the interleaving is in question).
C30_LimiteConcorrente ==
    (cliente /\ LeiturasDistintas) =>
        \A t \in 1..MaxRelogio : Cardinality(PermitidasAte(t)) <= max_requests

\* ---------------------------------------------- cache_utils.CircuitBreaker

MaxLimiar == 2

MaxTimeout == 2

MaxFalhas == 3

\* data = client.get(key): the value, if the key has not expired
VivoCircuito(c) == agora < c.expira

BreakerInit ==
    /\ texto = <<>>
    /\ idioma = "portugues"
    /\ SegIdle
    /\ JobIdle
    /\ roteiro_master = None
    /\ num_variacoes = 1
    /\ idiomas_alvo = <<>>
    /\ prompt_bloco = NoPrompt
    /\ FnIdle
    /\ TentIdle
    /\ agora = 1
    /\ cliente \in BOOLEAN
    /\ LimiterIdle
    /\ failure_threshold \in 1..MaxLimiar
    /\ timeout_seconds \in 1..MaxTimeout
    /\ circuit = SemCircuito
    /\ falhas_registradas = <<>>
    /\ aberto = SemConsulta

\* RecordFailure that opens the circuit one failure late
RecordFailureTardio ==
    /\ Len(falhas_registradas) < MaxFalhas
    /\ falhas_registradas' = Append(falhas_registradas, agora)
    /\ IF ~cliente
       THEN UNCHANGED circuit
       ELSE LET circuit_data == IF VivoCircuito(circuit) THEN circuit ELSE SemCircuito
                failures == circuit_data.failures + 1
            IN  circuit' = [failures |-> failures,
                            open_until |-> IF failures > failure_threshold
                                           THEN agora + timeout_seconds
                                           ELSE circuit_data.open_until,
                            expira |-> agora + timeout_seconds * 2]
    /\ UNCHANGED <<seg_vars, job_vars, fn_vars, tent_vars, agora, cliente, limiter_vars,
                   failure_threshold, timeout_seconds, aberto>>

\* CircuitBreaker.record_failure
RecordFailure ==
    /\ Len(falhas_registradas) < MaxFalhas
    /\ falhas_registradas' = Append(falhas_registradas, agora)
    /\ IF ~cliente
       THEN UNCHANGED circuit
       ELSE LET circuit_data == IF VivoCircuito(circuit) THEN circuit ELSE SemCircuito
                failures == circuit_data.failures + 1
            IN  circuit' = [failures |-> failures,
                            open_until |-> IF failures >= failure_threshold
                                           THEN agora + timeout_seconds
                                           ELSE circuit_data.open_until,
                            expira |-> agora + timeout_seconds * 2]
    /\ UNCHANGED <<seg_vars, job_vars, fn_vars, tent_vars, agora, cliente, limiter_vars,
                   failure_threshold, timeout_seconds, aberto>>

\* CircuitBreaker.record_success: self.reset(identifier), client.delete(key)
RecordSuccess ==
    /\ falhas_registradas # <<>>
    /\ falhas_registradas' = <<>>
    /\ circuit' = IF cliente THEN SemCircuito ELSE circuit
    /\ UNCHANGED <<seg_vars, job_vars, fn_vars, tent_vars, agora, cliente, limiter_vars,
                   failure_threshold, timeout_seconds, aberto>>

Consulta(ret) == [ret |-> ret, em |-> agora, falhas |-> falhas_registradas]

\* CircuitBreaker.is_open
IsOpen ==
    /\ IF ~cliente \/ ~VivoCircuito(circuit) \/ circuit.open_until = 0
       THEN /\ aberto' = Consulta(FALSE)
            /\ UNCHANGED <<circuit, falhas_registradas>>
       ELSE IF agora > circuit.open_until
            THEN /\ circuit' = SemCircuito
                 /\ falhas_registradas' = <<>>
                 /\ aberto' = Consulta(FALSE)
            ELSE /\ aberto' = Consulta(TRUE)
                 /\ UNCHANGED <<circuit, falhas_registradas>>
    /\ UNCHANGED <<seg_vars, job_vars, fn_vars, tent_vars, agora, cliente, limiter_vars,
                   failure_threshold, timeout_seconds>>

BreakerNext ==
    \/ RecordFailure
    \/ RecordSuccess
    \/ IsOpen
    \/ Tique

SpecBreaker == BreakerInit /\ [][BreakerNext]_vars

\* the failures at the end of f of which each came less than 2 * timeout_seconds
\* after the one before it
RECURSIVE Seguidas(_)
Seguidas(f) ==
    IF f = <<>> THEN 0
    ELSE IF Len(f) = 1 THEN 1
    ELSE IF f[Len(f)] - f[Len(f) - 1] < timeout_seconds * 2
         THEN 1 + Seguidas(SubSeq(f, 1, Len(f) - 1))
         ELSE 1

\* the failure count the store holds now
ContagemViva == IF VivoCircuito(circuit) THEN circuit.failures ELSE 0

Ultima(f) == f[Len(f)]

\* C26 as stated: is_open is True exactly when failure_threshold or more
\* failures were recorded since the last reset and the call comes no later
\* than timeout_seconds after the last of them; a call after that finds the
\* count cleared.
C26_Original ==
    (cliente /\ aberto.em > 0) =>
        /\ aberto.ret <=>
              /\ Len(aberto.falhas) >= failure_threshold
              /\ aberto.em <= Ultima(aberto.falhas) + timeout_seconds
        /\ (aberto.em = agora /\ ~aberto.ret /\ falhas_registradas = <<>>) => ContagemViva = 0

\* C26: is_open is True exactly when the last failure_threshold or more
\* failures recorded since the last reset each came less than
\* 2 * timeout_seconds after the one before (the stored count expires
\* 2 * timeout_seconds after the latest failure) and the call comes no later
\* than timeout_seconds after the last of them; the count the store holds is
\* the number of those failures, and nothing once the circuit was found timed
\* out or the key expired.
C26_CircuitBreaker ==
    cliente =>
        /\ aberto.em > 0 =>
              (aberto.ret <=>
                  /\ Seguidas(aberto.falhas) >= failure_threshold
                  /\ aberto.em <= Ultima(aberto.falhas) + timeout_seconds)
        /\ ContagemViva =
              IF falhas_registradas # <<>>
                 /\ agora < Ultima(falhas_registradas) + timeout_seconds * 2
              THEN Seguidas(falhas_registradas)
              ELSE 0

\* C26 witness: the circuit opened on the threshold failure, and a later call
\* made after the timeout found it closed with the count cleared
C26_Witness ==
    /\ cliente
    /\ failure_threshold = MaxLimiar
    /\ ~aberto.ret
    /\ Len(aberto.falhas) = failure_threshold
    /\ aberto.em > Ultima(aberto.falhas) + timeout_seconds
    /\ Seguidas(aberto.falhas) = failure_threshold
    /\ falhas_registradas = <<>>
    /\ circuit = SemCircuito

====
